---------------------------- MODULE Spec2Model ----------------------------
(* A model of za's link classification and resolution engine:             *)
(*   internal/notes    (finder.go, types.go)  -- the Note Finder          *)
(*   internal/markdown (Link predicates)      -- date-link shape, series  *)
(*   internal/links    (classifier, resolver) -- Classify and Resolve     *)
(* Go strings are sequences of one-character strings, a time.Time at      *)
(* midnight UTC is its day number (days since 1970-01-01), an error is    *)
(* the sequence of its message tags, outermost first (nil is << >>).      *)
EXTENDS Integers, Sequences, FiniteSets, TLC

VARIABLES fs, file, cfg, resolver, args, classified, resolved, lookup, op, ret

vars == <<fs, file, cfg, resolver, args, classified, resolved, lookup, op, ret>>

--------------------------------------------------------------------------
(* Bounds of the model.                                                   *)

\* The note directories hold entries for the days Day0 .. Day0 + MaxDay.
MaxDay == 2

\* Search windows range up to MaxWindow days.
MaxWindow == 2

--------------------------------------------------------------------------
(* Strings.                                                               *)

Digits == <<"0", "1", "2", "3", "4", "5", "6", "7", "8", "9">>

IsDigit(c) == \E i \in 1..10 : Digits[i] = c

DigitVal(c) == (CHOOSE i \in 1..10 : Digits[i] = c) - 1

UpperCase == <<"A", "B", "C", "D", "E", "F", "G", "H", "I", "J", "K", "L", "M",
               "N", "O", "P", "Q", "R", "S", "T", "U", "V", "W", "X", "Y", "Z">>

LowerCase == <<"a", "b", "c", "d", "e", "f", "g", "h", "i", "j", "k", "l", "m",
               "n", "o", "p", "q", "r", "s", "t", "u", "v", "w", "x", "y", "z">>

\* strings.ToLower, on ASCII text
ToLowerChar(c) ==
    IF \E i \in 1..26 : UpperCase[i] = c
    THEN LowerCase[CHOOSE i \in 1..26 : UpperCase[i] = c]
    ELSE c

ToLower(s) == [i \in 1..Len(s) |-> ToLowerChar(s[i])]

IsSpace(c) == c \in {" ", "\t", "\n", "\r"}

\* strings.TrimSpace: drop the leading and the trailing white space
TrimSpace(s) ==
    LET keep == {i \in 1..Len(s) : ~IsSpace(s[i])}
    IN  IF keep = {} THEN << >>
        ELSE LET lo == CHOOSE i \in keep : \A j \in keep : i <= j
                 hi == CHOOSE i \in keep : \A j \in keep : j <= i
             IN  SubSeq(s, lo, hi)

\* sub occurs in s at position i (1-based)
OccursAt(s, sub, i) ==
    /\ i >= 1
    /\ i + Len(sub) - 1 <= Len(s)
    /\ SubSeq(s, i, i + Len(sub) - 1) = sub

\* strings.Contains
Contains(s, sub) == \E i \in 1..(Len(s) + 1) : OccursAt(s, sub, i)

\* strings.HasPrefix
HasPrefix(s, prefix) == OccursAt(s, prefix, 1)

\* filepath.Join of two clean elements: empty elements are dropped
Join(a, b) ==
    IF a = << >> THEN b
    ELSE IF b = << >> THEN a
    ELSE a \o <<"/">> \o b

RECURSIVE TrimSeparators(_)
\* p without its trailing separators
TrimSeparators(p) ==
    IF p # << >> /\ p[Len(p)] = "/" THEN TrimSeparators(SubSeq(p, 1, Len(p) - 1))
    ELSE p

\* what follows the last separator of p
LastElement(p) ==
    LET seps == {i \in 1..Len(p) : p[i] = "/"}
    IN  IF seps = {} THEN p
        ELSE LET last == CHOOSE i \in seps : \A j \in seps : j <= i
             IN  SubSeq(p, last + 1, Len(p))

\* filepath.Base: "." for the empty path, "/" for a path of separators,
\* else the last element, trailing separators removed
Base(p) ==
    IF p = << >> THEN <<".">>
    ELSE IF TrimSeparators(p) = << >> THEN <<"/">>
    ELSE LastElement(TrimSeparators(p))

--------------------------------------------------------------------------
(* Dates: time.Time.Format(DateFormat), time.Parse(DateFormat, s) and     *)
(* AddDate(0, 0, n) on the proleptic Gregorian calendar.                  *)

IsLeap(y) == (y % 4 = 0 /\ y % 100 # 0) \/ y % 400 = 0

DaysIn(y, m) ==
    IF m = 2 THEN (IF IsLeap(y) THEN 29 ELSE 28)
    ELSE IF m \in {4, 6, 9, 11} THEN 30 ELSE 31

\* day number of the civil date y-m-d
DaysFromCivil(y, m, d) ==
    LET yy  == IF m <= 2 THEN y - 1 ELSE y
        era == yy \div 400
        yoe == yy - era * 400
        mp  == IF m > 2 THEN m - 3 ELSE m + 9
        doy == (153 * mp + 2) \div 5 + d - 1
        doe == yoe * 365 + yoe \div 4 - yoe \div 100 + doy
    IN  era * 146097 + doe - 719468

\* civil date <<y, m, d>> of a day number
CivilFromDays(n) ==
    LET z   == n + 719468
        era == z \div 146097
        doe == z - era * 146097
        yoe == (doe - doe \div 1460 + doe \div 36524 - doe \div 146096) \div 365
        doy == doe - (365 * yoe + yoe \div 4 - yoe \div 100)
        mp  == (5 * doy + 2) \div 153
        d   == doy - (153 * mp + 2) \div 5 + 1
        m   == IF mp < 10 THEN mp + 3 ELSE mp - 9
        y   == yoe + era * 400 + (IF m <= 2 THEN 1 ELSE 0)
    IN  <<y, m, d>>

Digit(n) == Digits[n + 1]

Pad2(n) == <<Digit(n \div 10), Digit(n % 10)>>

RECURSIVE Decimal(_)
Decimal(n) ==
    IF n < 10 THEN <<Digit(n)>> ELSE Decimal(n \div 10) \o <<Digit(n % 10)>>

\* four digits at least
Unsigned4(n) ==
    IF n > 9999 THEN Decimal(n)
    ELSE <<Digit(n \div 1000), Digit((n \div 100) % 10),
           Digit((n \div 10) % 10), Digit(n % 10)>>

\* the year: four digits at least, with a sign before a negative one
Pad4(n) == IF n < 0 THEN <<"-">> \o Unsigned4(0 - n) ELSE Unsigned4(n)

\* date.Format(DateFormat): YYYY-MM-DD
FormatDate(date) ==
    LET c == CivilFromDays(date)
    IN  Pad4(c[1]) \o <<"-">> \o Pad2(c[2]) \o <<"-">> \o Pad2(c[3])

\* the text s has the layout dddd-dd-dd
IsDateLayout(s) ==
    /\ Len(s) = 10
    /\ \A i \in {1, 2, 3, 4, 6, 7, 9, 10} : IsDigit(s[i])
    /\ s[5] = "-"
    /\ s[8] = "-"

Num(s) == IF Len(s) = 2 THEN 10 * DigitVal(s[1]) + DigitVal(s[2])
          ELSE 1000 * DigitVal(s[1]) + 100 * DigitVal(s[2])
               + 10 * DigitVal(s[3]) + DigitVal(s[4])

\* time.Parse checking the layout only, not the month and the day
ParseDate_LayoutOnly(s) ==
    IF ~IsDateLayout(s) THEN [date |-> 0, ok |-> FALSE]
    ELSE [date |-> DaysFromCivil(Num(SubSeq(s, 1, 4)), Num(SubSeq(s, 6, 7)),
                                 Num(SubSeq(s, 9, 10))),
          ok |-> TRUE]

\* time.Parse(DateFormat, s): the layout, then month and day in range
ParseDate(s) ==
    IF ~IsDateLayout(s) THEN [date |-> 0, ok |-> FALSE]
    ELSE LET y == Num(SubSeq(s, 1, 4))
             m == Num(SubSeq(s, 6, 7))
             d == Num(SubSeq(s, 9, 10))
         IN  IF m < 1 \/ m > 12 \/ d < 1 \/ d > DaysIn(y, m)
             THEN [date |-> 0, ok |-> FALSE]
             ELSE [date |-> DaysFromCivil(y, m, d), ok |-> TRUE]

\* the first day the note directories hold an entry for: 2025-02-27
Day0 == DaysFromCivil(2025, 2, 27)

Days == Day0 .. (Day0 + MaxDay)

--------------------------------------------------------------------------
(* Note types (internal/notes/types.go).                                  *)

NoteTypeJournal == <<"j", "o", "u", "r", "n", "a", "l">>

NoteTypeStandup == <<"s", "t", "a", "n", "d", "u", "p">>

IsValid(nt) == nt \in {NoteTypeJournal, NoteTypeStandup}

--------------------------------------------------------------------------
(* The filesystem: fs maps each existing path to "file" or "dir"; a path  *)
(* it does not map does not exist.  The value "eacces" stands for a path  *)
(* whose stat fails with an error other than not-exist.                   *)

Nil == << >>

MdExt == <<".", "m", "d">>

\* os.Stat(path): the error, and whether the entry is a directory
Stat(path) ==
    IF path \notin DOMAIN fs THEN [err |-> "ENOENT", info |-> "nil"]
    ELSE IF fs[path] = "eacces" THEN [err |-> "EACCES", info |-> "nil"]
    ELSE [err |-> "nil", info |-> fs[path]]

\* os.IsNotExist(err)
IsNotExist(err) == err = "ENOENT"

\* fileExists answering yes for every entry, directories included
fileExists_AnyEntry(path) ==
    LET st == Stat(path)
    IN  IF IsNotExist(st.err) THEN "no"
        ELSE IF st.info = "nil" THEN "panic"
        ELSE "yes"

\* fileExists: "yes", "no", or "panic" when info is nil and is dereferenced
fileExists(path) ==
    LET st == Stat(path)
    IN  IF IsNotExist(st.err) THEN "no"
        ELSE IF st.info = "nil" THEN "panic"
        ELSE IF st.info # "dir" THEN "yes" ELSE "no"


--------------------------------------------------------------------------
(* The Note Finder (internal/notes/finder.go).  A finder result holds the *)
(* returned path and error, the paths it handed to os.Stat, in order, and *)
(* whether the call panicked instead of returning.                        *)

Returned(path, err, stats) ==
    [path |-> path, err |-> err, panicked |-> FALSE, stats |-> stats]

Panicked(stats) ==
    [path |-> Nil, err |-> Nil, panicked |-> TRUE, stats |-> stats]

ErrInvalidNoteType == <<"invalid note type">>

ErrSearchWindow == <<"searchWindowDays must be positive">>

ErrDirectory == <<"directory does not exist">>

ErrNoNoteBefore == <<"no note found for date or within window before">>

ErrNoNoteAfter == <<"no note found after date within window">>

\* the path of the note of a date in a directory
NotePath(dir, date) == Join(dir, FormatDate(date) \o MdExt)

\* the fallback loop of FindNoteByDate with one round more (i <= window + 1)
RECURSIVE SearchPrevious_OneRoundMore(_, _, _, _, _)
SearchPrevious_OneRoundMore(date, dir, i, searchWindowDays, stats) ==
    IF i > searchWindowDays + 1 THEN Returned(Nil, ErrNoNoteBefore, stats)
    ELSE LET previousDate == date - i
             previousPath == NotePath(dir, previousDate)
             exists == fileExists(previousPath)
             seen == Append(stats, previousPath)
         IN  IF exists = "panic" THEN Panicked(seen)
             ELSE IF exists = "yes" THEN Returned(previousPath, Nil, seen)
             ELSE SearchPrevious_OneRoundMore(date, dir, i + 1,
                                              searchWindowDays, seen)

\* the fallback loop of FindNoteByDate, from its i-th round
RECURSIVE SearchPrevious(_, _, _, _, _)
SearchPrevious(date, dir, i, searchWindowDays, stats) ==
    IF i > searchWindowDays THEN Returned(Nil, ErrNoNoteBefore, stats)
    ELSE LET previousDate == date - i
             previousPath == NotePath(dir, previousDate)
             exists == fileExists(previousPath)
             seen == Append(stats, previousPath)
         IN  IF exists = "panic" THEN Panicked(seen)
             ELSE IF exists = "yes" THEN Returned(previousPath, Nil, seen)
             ELSE SearchPrevious(date, dir, i + 1, searchWindowDays, seen)

\* FindNoteByDate with the fallback loop one round short (i < window)
FindNoteByDate_ShortWindow(date, noteType, dir, searchWindowDays) ==
    IF ~IsValid(noteType) THEN Returned(Nil, ErrInvalidNoteType, << >>)
    ELSE IF searchWindowDays <= 0 THEN Returned(Nil, ErrSearchWindow, << >>)
    ELSE IF IsNotExist(Stat(dir).err) THEN Returned(Nil, ErrDirectory, <<dir>>)
    ELSE LET exactPath == NotePath(dir, date)
             seen == <<dir, exactPath>>
         IN  IF fileExists(exactPath) = "yes" THEN Returned(exactPath, Nil, seen)
             ELSE SearchPrevious(date, dir, 1, searchWindowDays - 1, seen)

\* FindNoteByDate without the probe of the exact date
FindNoteByDate_NoExactProbe(date, noteType, dir, searchWindowDays) ==
    IF ~IsValid(noteType) THEN Returned(Nil, ErrInvalidNoteType, << >>)
    ELSE IF searchWindowDays <= 0 THEN Returned(Nil, ErrSearchWindow, << >>)
    ELSE IF IsNotExist(Stat(dir).err) THEN Returned(Nil, ErrDirectory, <<dir>>)
    ELSE SearchPrevious(date, dir, 1, searchWindowDays, <<dir>>)

\* FindNoteByDate without the validation of the note type
FindNoteByDate_AnyNoteType(date, noteType, dir, searchWindowDays) ==
    IF searchWindowDays <= 0 THEN Returned(Nil, ErrSearchWindow, << >>)
    ELSE IF IsNotExist(Stat(dir).err) THEN Returned(Nil, ErrDirectory, <<dir>>)
    ELSE LET exactPath == NotePath(dir, date)
             seen == <<dir, exactPath>>
         IN  IF fileExists(exactPath) = "yes" THEN Returned(exactPath, Nil, seen)
             ELSE SearchPrevious(date, dir, 1, searchWindowDays, seen)

FindNoteByDate(date, noteType, dir, searchWindowDays) ==
    IF ~IsValid(noteType) THEN Returned(Nil, ErrInvalidNoteType, << >>)
    ELSE IF searchWindowDays <= 0 THEN Returned(Nil, ErrSearchWindow, << >>)
    ELSE IF IsNotExist(Stat(dir).err) THEN Returned(Nil, ErrDirectory, <<dir>>)
    ELSE LET exactPath == NotePath(dir, date)
             exists == fileExists(exactPath)
             seen == <<dir, exactPath>>
         IN  IF exists = "panic" THEN Panicked(seen)
             ELSE IF exists = "yes" THEN Returned(exactPath, Nil, seen)
             ELSE SearchPrevious(date, dir, 1, searchWindowDays, seen)

\* the loop of FindNextNote, from its i-th round
RECURSIVE SearchNext(_, _, _, _, _)
SearchNext(date, dir, i, searchWindowDays, stats) ==
    IF i > searchWindowDays THEN Returned(Nil, ErrNoNoteAfter, stats)
    ELSE LET nextDate == date + i
             nextPath == NotePath(dir, nextDate)
             exists == fileExists(nextPath)
             seen == Append(stats, nextPath)
         IN  IF exists = "panic" THEN Panicked(seen)
             ELSE IF exists = "yes" THEN Returned(nextPath, Nil, seen)
             ELSE SearchNext(date, dir, i + 1, searchWindowDays, seen)

\* FindNextNote with the loop started at the date itself (i = 0)
FindNextNote_FromDate(date, noteType, dir, searchWindowDays) ==
    IF ~IsValid(noteType) THEN Returned(Nil, ErrInvalidNoteType, << >>)
    ELSE IF searchWindowDays <= 0 THEN Returned(Nil, ErrSearchWindow, << >>)
    ELSE SearchNext(date, dir, 0, searchWindowDays, << >>)

FindNextNote(date, noteType, dir, searchWindowDays) ==
    IF ~IsValid(noteType) THEN Returned(Nil, ErrInvalidNoteType, << >>)
    ELSE IF searchWindowDays <= 0 THEN Returned(Nil, ErrSearchWindow, << >>)
    ELSE SearchNext(date, dir, 1, searchWindowDays, << >>)

ErrFilenameTooShort == <<"filename too short">>

ErrInvalidDateFormat == <<"invalid date format in filename">>

\* the zero time.Time: 0001-01-01
ZeroTime == DaysFromCivil(1, 1, 1)

\* ParseDateFromFilename on the first ten characters of the whole path
ParseDateFromFilename_WholePath(filename) ==
    IF Len(filename) < 10 THEN [date |-> ZeroTime, err |-> ErrFilenameTooShort]
    ELSE LET parsed == ParseDate(SubSeq(filename, 1, 10))
         IN  IF ~parsed.ok
             THEN [date |-> ZeroTime, err |-> ErrInvalidDateFormat]
             ELSE [date |-> parsed.date, err |-> Nil]

ParseDateFromFilename(filename) ==
    LET base == Base(filename)
    IN  IF Len(base) < 10 THEN [date |-> ZeroTime, err |-> ErrFilenameTooShort]
        ELSE LET parsed == ParseDate(SubSeq(base, 1, 10))
             IN  IF ~parsed.ok
                 THEN [date |-> ZeroTime, err |-> ErrInvalidDateFormat]
                 ELSE [date |-> parsed.date, err |-> Nil]

GenerateFilename(date) == FormatDate(date) \o MdExt

--------------------------------------------------------------------------
(* Configuration (internal/config).                                       *)

JournalDir == <<"/", "j", "o", "u", "r", "n", "a", "l">>

StandupDir == <<"/", "s", "t", "a", "n", "d", "u", "p">>

\* a directory no filesystem of the model holds
MissingDir == <<"/", "n", "o", "n", "e", "x", "i", "s", "t", "e", "n", "t">>

DefaultPreviousTitles == <<<<"Y", "e", "s", "t", "e", "r", "d", "a", "y">>, <<"P", "r", "e", "v", "i", "o", "u", "s">>, <<"L", "a", "s", "t", " ", "W", "e", "e", "k">>>>

DefaultNextTitles == <<<<"T", "o", "m", "o", "r", "r", "o", "w">>, <<"N", "e", "x", "t">>, <<"N", "e", "x", "t", " ", "W", "e", "e", "k">>>>

\* DefaultConfig, with the search window given
DefaultConfig(searchWindowDays) ==
    [Journal |-> [Dir |-> JournalDir,
                  LinkPreviousTitles |-> DefaultPreviousTitles,
                  LinkNextTitles |-> DefaultNextTitles],
     Standup |-> [Dir |-> StandupDir,
                  LinkPreviousTitles |-> DefaultPreviousTitles,
                  LinkNextTitles |-> DefaultNextTitles],
     SearchWindowDays |-> searchWindowDays]

\* a configuration with synonym lists of its own: an added synonym for
\* each journal list, a synonym written with surrounding blanks, one that
\* holds a cross-reference marker, and one listed as previous for the
\* journal and as next for the standup
CustomConfig(searchWindowDays) ==
    [Journal |-> [Dir |-> JournalDir,
                  LinkPreviousTitles |-> Append(DefaultPreviousTitles, <<"B", "e", "f", "o", "r", "e">>),
                  LinkNextTitles |-> Append(DefaultNextTitles, <<"A", "f", "t", "e", "r">>)],
     Standup |-> [Dir |-> StandupDir,
                  LinkPreviousTitles |-> <<<<" ", "E", "a", "r", "l", "i", "e", "r", " ">>>>,
                  LinkNextTitles |-> <<<<"S", "t", "a", "n", "d", "u", "p", " ", "N", "e", "x", "t">>, <<"Y", "e", "s", "t", "e", "r", "d", "a", "y">>>>],
     SearchWindowDays |-> searchWindowDays]

--------------------------------------------------------------------------
(* Links (internal/markdown): a Link is [Text, Destination].              *)

\* the text after the first n characters of s
Drop(s, n) == SubSeq(s, n + 1, Len(s))

\* s is dddd-dd-dd, optionally followed by .md: ^\d{4}-\d{2}-\d{2}(\.md)?$
MatchesBareDate(s) ==
    \/ IsDateLayout(s)
    \/ Len(s) = 13 /\ IsDateLayout(SubSeq(s, 1, 10)) /\ Drop(s, 10) = MdExt

\* s has a match of \.\./[^/]+/\d{4}-\d{2}-\d{2}(\.md)?$ : the date part
\* ends the text, a separator precedes it, and before that comes ../ with
\* a non-empty segment free of separators
MatchesRelativeDate(s) ==
    \E n \in {10, 13} :
        /\ Len(s) > n
        /\ MatchesBareDate(Drop(s, Len(s) - n))
        /\ s[Len(s) - n] = "/"
        /\ \E start \in 1..Len(s) :
            /\ OccursAt(s, <<".", ".", "/">>, start)
            /\ start + 3 <= Len(s) - n - 1
            /\ \A k \in (start + 3)..(Len(s) - n - 1) : s[k] # "/"

IsDateLink(l) ==
    \/ MatchesBareDate(l.Destination)
    \/ MatchesRelativeDate(l.Destination)

IsExternalLink(l) == Contains(l.Destination, <<":", "/", "/">>)

\* the first (leftmost) match of \d{4}-\d{2}-\d{2} in the destination
GetDateFromDestination(l) ==
    LET dest == l.Destination
        hits == {i \in 1..Len(dest) :
                   i + 9 <= Len(dest) /\ IsDateLayout(SubSeq(dest, i, i + 9))}
    IN  IF hits = {} THEN << >>
        ELSE LET first == CHOOSE i \in hits : \A j \in hits : i <= j
             IN  SubSeq(dest, first, first + 9)

\* GetNoteTypeFromDestination on the destination as written, not lowercased
GetNoteTypeFromDestination_CaseSensitive(l) ==
    LET dest == l.Destination
    IN  IF Contains(dest, <<"/", "j", "o", "u", "r", "n", "a", "l", "/">>) \/ HasPrefix(dest, <<"j", "o", "u", "r", "n", "a", "l", "/">>)
        THEN <<"j", "o", "u", "r", "n", "a", "l">>
        ELSE IF Contains(dest, <<"/", "s", "t", "a", "n", "d", "u", "p", "/">>) \/ HasPrefix(dest, <<"s", "t", "a", "n", "d", "u", "p", "/">>)
        THEN <<"s", "t", "a", "n", "d", "u", "p">>
        ELSE << >>

GetNoteTypeFromDestination(l) ==
    LET dest == ToLower(l.Destination)
    IN  IF Contains(dest, <<"/", "j", "o", "u", "r", "n", "a", "l", "/">>) \/ HasPrefix(dest, <<"j", "o", "u", "r", "n", "a", "l", "/">>)
        THEN <<"j", "o", "u", "r", "n", "a", "l">>
        ELSE IF Contains(dest, <<"/", "s", "t", "a", "n", "d", "u", "p", "/">>) \/ HasPrefix(dest, <<"s", "t", "a", "n", "d", "u", "p", "/">>)
        THEN <<"s", "t", "a", "n", "d", "u", "p">>
        ELSE << >>

--------------------------------------------------------------------------
(* The Link Classifier (internal/links).  A ClassifiedLink is             *)
(* [Link, Type, TargetNoteType].                                          *)

LinkTypeTemporalPrevious == "temporal_previous"

LinkTypeTemporalNext == "temporal_next"

LinkTypeCrossReference == "cross_reference"

LinkTypeExternal == "external"

LinkTypeOther == "other"

LinkTypes == {LinkTypeTemporalPrevious, LinkTypeTemporalNext,
              LinkTypeCrossReference, LinkTypeExternal, LinkTypeOther}

ClassifiedLink(link, type, target) ==
    [Link |-> link, Type |-> type, TargetNoteType |-> target]

\* matchesAny with a substring test in place of the equality
matchesAny_Substring(text, patterns) ==
    \E i \in 1..Len(patterns) :
        Contains(text, ToLower(TrimSpace(patterns[i])))

matchesAny(text, patterns) ==
    \E i \in 1..Len(patterns) : ToLower(TrimSpace(patterns[i])) = text

crossRefPatterns == <<<<"s", "t", "a", "n", "d", "u", "p">>, <<"j", "o", "u", "r", "n", "a", "l">>, <<"d", "a", "i", "l", "y">>, <<"d", "a", "i", "l", "y", " ", "l", "o", "g">>>>

isCrossReference(linkText) ==
    \E i \in 1..Len(crossRefPatterns) : Contains(linkText, crossRefPatterns[i])

\* Classify with the cross-reference test ahead of the synonym tests
Classify_CrossReferenceFirst(link) ==
    IF IsExternalLink(link) THEN ClassifiedLink(link, LinkTypeExternal, << >>)
    ELSE IF ~IsDateLink(link) THEN ClassifiedLink(link, LinkTypeOther, << >>)
    ELSE LET linkText == ToLower(TrimSpace(link.Text))
             target == GetNoteTypeFromDestination(link)
         IN  IF isCrossReference(linkText)
             THEN ClassifiedLink(link, LinkTypeCrossReference, target)
             ELSE IF \/ matchesAny(linkText, cfg.Journal.LinkPreviousTitles)
                     \/ matchesAny(linkText, cfg.Standup.LinkPreviousTitles)
             THEN ClassifiedLink(link, LinkTypeTemporalPrevious, target)
             ELSE IF \/ matchesAny(linkText, cfg.Journal.LinkNextTitles)
                     \/ matchesAny(linkText, cfg.Standup.LinkNextTitles)
             THEN ClassifiedLink(link, LinkTypeTemporalNext, target)
             ELSE ClassifiedLink(link, LinkTypeOther, << >>)

\* Classify with the date-link test ahead of the external test
Classify_DateLinkFirst(link) ==
    IF ~IsDateLink(link)
    THEN (IF IsExternalLink(link)
          THEN ClassifiedLink(link, LinkTypeExternal, << >>)
          ELSE ClassifiedLink(link, LinkTypeOther, << >>))
    ELSE LET linkText == ToLower(TrimSpace(link.Text))
             target == GetNoteTypeFromDestination(link)
         IN  IF \/ matchesAny(linkText, cfg.Journal.LinkPreviousTitles)
                \/ matchesAny(linkText, cfg.Standup.LinkPreviousTitles)
             THEN ClassifiedLink(link, LinkTypeTemporalPrevious, target)
             ELSE IF \/ matchesAny(linkText, cfg.Journal.LinkNextTitles)
                     \/ matchesAny(linkText, cfg.Standup.LinkNextTitles)
             THEN ClassifiedLink(link, LinkTypeTemporalNext, target)
             ELSE IF isCrossReference(linkText)
             THEN ClassifiedLink(link, LinkTypeCrossReference, target)
             ELSE ClassifiedLink(link, LinkTypeOther, << >>)

Classify(link) ==
    IF IsExternalLink(link) THEN ClassifiedLink(link, LinkTypeExternal, << >>)
    ELSE IF ~IsDateLink(link) THEN ClassifiedLink(link, LinkTypeOther, << >>)
    ELSE LET linkText == ToLower(TrimSpace(link.Text))
             target == GetNoteTypeFromDestination(link)
         IN  IF \/ matchesAny(linkText, cfg.Journal.LinkPreviousTitles)
                \/ matchesAny(linkText, cfg.Standup.LinkPreviousTitles)
             THEN ClassifiedLink(link, LinkTypeTemporalPrevious, target)
             ELSE IF \/ matchesAny(linkText, cfg.Journal.LinkNextTitles)
                     \/ matchesAny(linkText, cfg.Standup.LinkNextTitles)
             THEN ClassifiedLink(link, LinkTypeTemporalNext, target)
             ELSE IF isCrossReference(linkText)
             THEN ClassifiedLink(link, LinkTypeCrossReference, target)
             ELSE ClassifiedLink(link, LinkTypeOther, << >>)

\* NeedsFixing without the test of the destination
NeedsFixing_AnyDestination(l) ==
    l.Type \in {LinkTypeTemporalPrevious, LinkTypeTemporalNext,
                LinkTypeCrossReference}

NeedsFixing(l) ==
    IF l.Type \in {LinkTypeTemporalPrevious, LinkTypeTemporalNext,
                   LinkTypeCrossReference}
    THEN IsDateLink(l.Link)
    ELSE FALSE

ClassifyAll(links) == [i \in 1 .. Len(links) |-> Classify(links[i])]

--------------------------------------------------------------------------
(* The Link Resolver (internal/links).  The resolver is [currentDate,     *)
(* currentNoteType]; a ResolvedLink is [Classified, ResolvedPath,         *)
(* ResolvedDate, Error, NeedsUpdate, SuggestedDestination].  A resolution *)
(* is the ResolvedLink together with the finder call that was made        *)
(* (lookup) and whether that call panicked.                               *)

\* no finder call was made
NoLookup == [fn |-> "none"]

NewResolver(currentDate, currentNoteType) ==
    [constructed |-> TRUE, currentDate |-> currentDate,
     currentNoteType |-> currentNoteType]

\* the ResolvedLink that holds the classified link and zero values
Unresolved(l) ==
    [Classified |-> l, ResolvedPath |-> Nil, ResolvedDate |-> ZeroTime,
     Error |-> Nil, NeedsUpdate |-> FALSE, SuggestedDestination |-> Nil]

Lookup(fn, date, noteType, dir, searchWindowDays) ==
    [fn |-> fn, date |-> date, noteType |-> noteType, dir |-> dir,
     searchWindowDays |-> searchWindowDays]

Resolution(link, call, panicked) ==
    [link |-> link, lookup |-> call, panicked |-> panicked]

\* determineTargetNoteType with the current series for every link that
\* names none
determineTargetNoteType_AlwaysCurrent(l) ==
    IF l.TargetNoteType # << >> THEN l.TargetNoteType
    ELSE resolver.currentNoteType

determineTargetNoteType(l) ==
    IF l.TargetNoteType # << >> THEN l.TargetNoteType
    ELSE IF l.Type \in {LinkTypeTemporalPrevious, LinkTypeTemporalNext}
    THEN resolver.currentNoteType
    ELSE IF resolver.currentNoteType = NoteTypeJournal THEN NoteTypeStandup
    ELSE NoteTypeJournal

ErrUnknownNoteType == <<"unknown note type">>

getDirForNoteType(noteType) ==
    IF noteType = NoteTypeJournal THEN [dir |-> cfg.Journal.Dir, err |-> Nil]
    ELSE IF noteType = NoteTypeStandup THEN [dir |-> cfg.Standup.Dir, err |-> Nil]
    ELSE [dir |-> << >>, err |-> ErrUnknownNoteType]

\* formatDestination naming the note file, with its .md extension
formatDestination_NotePath(date, targetType) ==
    IF targetType = resolver.currentNoteType THEN FormatDate(date) \o MdExt
    ELSE Join(Join(<<".", ".">>, targetType), FormatDate(date) \o MdExt)

\* formatDestination with the bare date whatever the target series
formatDestination_AlwaysBare(date, targetType) == FormatDate(date)

formatDestination(date, targetType) ==
    IF targetType = resolver.currentNoteType THEN FormatDate(date)
    ELSE Join(Join(<<".", ".">>, targetType), FormatDate(date))

\* resolveFound comparing the whole destination with the canonical one
resolveFound_ComparesDestination(l, targetType, found, call, failure) ==
    IF found.err # Nil
    THEN Resolution([Unresolved(l) EXCEPT !.Error = <<failure>> \o found.err],
                    call, FALSE)
    ELSE LET parsed == ParseDateFromFilename(found.path)
             suggestedDest == formatDestination(parsed.date, targetType)
             stale == l.Link.Destination # suggestedDest
         IN  Resolution(
               [Unresolved(l) EXCEPT
                   !.ResolvedPath = found.path,
                   !.ResolvedDate = parsed.date,
                   !.NeedsUpdate = stale,
                   !.SuggestedDestination =
                       IF stale THEN suggestedDest ELSE Nil],
               call, FALSE)

\* resolveFound marking a failed link as needing an update
resolveFound_FlagsFailures(l, targetType, found, call, failure) ==
    IF found.err # Nil
    THEN Resolution([Unresolved(l) EXCEPT !.Error = <<failure>> \o found.err,
                                          !.NeedsUpdate = TRUE],
                    call, FALSE)
    ELSE LET parsed == ParseDateFromFilename(found.path)
             suggestedDest == formatDestination(parsed.date, targetType)
             stale == GetDateFromDestination(l.Link) # FormatDate(parsed.date)
         IN  Resolution(
               [Unresolved(l) EXCEPT
                   !.ResolvedPath = found.path,
                   !.ResolvedDate = parsed.date,
                   !.NeedsUpdate = stale,
                   !.SuggestedDestination =
                       IF stale THEN suggestedDest ELSE Nil],
               call, FALSE)

\* resolveFound taking a failed search for a note of the date searched from
resolveFound_SuggestsSearchDate(l, targetType, found, call, failure) ==
    IF found.err # Nil
    THEN Resolution([Unresolved(l) EXCEPT
                        !.NeedsUpdate = TRUE,
                        !.SuggestedDestination =
                            formatDestination(call.date, targetType)],
                    call, FALSE)
    ELSE LET parsed == ParseDateFromFilename(found.path)
             suggestedDest == formatDestination(parsed.date, targetType)
             stale == GetDateFromDestination(l.Link) # FormatDate(parsed.date)
         IN  Resolution(
               [Unresolved(l) EXCEPT
                   !.ResolvedPath = found.path,
                   !.ResolvedDate = parsed.date,
                   !.NeedsUpdate = stale,
                   !.SuggestedDestination =
                       IF stale THEN suggestedDest ELSE Nil],
               call, FALSE)

\* what the three resolve functions do with the finder's answer: wrap its
\* error, or parse the date of the found path and compare it with the date
\* in the link's destination
resolveFound(l, targetType, found, call, failure) ==
    IF found.panicked THEN Resolution(Unresolved(l), call, TRUE)
    ELSE IF found.err # Nil
    THEN Resolution([Unresolved(l) EXCEPT !.Error = <<failure>> \o found.err],
                    call, FALSE)
    ELSE LET parsed == ParseDateFromFilename(found.path)
         IN  IF parsed.err # Nil
             THEN Resolution(
                    [Unresolved(l) EXCEPT
                        !.Error = <<"failed to parse date from path">> \o parsed.err],
                    call, FALSE)
             ELSE LET currentDest == GetDateFromDestination(l.Link)
                      suggestedDest == formatDestination(parsed.date, targetType)
                      stale == currentDest # FormatDate(parsed.date)
                  IN  Resolution(
                        [Unresolved(l) EXCEPT
                            !.ResolvedPath = found.path,
                            !.ResolvedDate = parsed.date,
                            !.NeedsUpdate = stale,
                            !.SuggestedDestination =
                                IF stale THEN suggestedDest ELSE Nil],
                        call, FALSE)

\* resolvePreviousLink of a Resolver that remembers the last resolution and
\* searches on from it
resolvePreviousLink_FromLastResult(l) ==
    LET targetType == determineTargetNoteType(l)
        target == getDirForNoteType(targetType)
        searchDate == IF op = "Resolve" /\ ret.ResolvedPath # Nil
                      THEN ret.ResolvedDate - 1
                      ELSE resolver.currentDate - 1
    IN  resolveFound(l, targetType,
            FindNoteByDate(searchDate, targetType, target.dir,
                           cfg.SearchWindowDays),
            Lookup("FindNoteByDate", searchDate, targetType,
                   target.dir, cfg.SearchWindowDays),
            "failed to find previous note")

\* resolvePreviousLink searching back from the current date itself
resolvePreviousLink_FromCurrentDate(l) ==
    LET targetType == determineTargetNoteType(l)
        target == getDirForNoteType(targetType)
    IN  resolveFound(l, targetType,
            FindNoteByDate(resolver.currentDate, targetType, target.dir,
                           cfg.SearchWindowDays),
            Lookup("FindNoteByDate", resolver.currentDate, targetType,
                   target.dir, cfg.SearchWindowDays),
            "failed to find previous note")

resolvePreviousLink(l) ==
    LET targetType == determineTargetNoteType(l)
        target == getDirForNoteType(targetType)
    IN  IF target.err # Nil
        THEN Resolution([Unresolved(l) EXCEPT !.Error = target.err],
                        NoLookup, FALSE)
        ELSE LET searchDate == resolver.currentDate - 1
             IN  resolveFound(l, targetType,
                     FindNoteByDate(searchDate, targetType, target.dir,
                                    cfg.SearchWindowDays),
                     Lookup("FindNoteByDate", searchDate, targetType,
                            target.dir, cfg.SearchWindowDays),
                     "failed to find previous note")

resolveNextLink(l) ==
    LET targetType == determineTargetNoteType(l)
        target == getDirForNoteType(targetType)
    IN  IF target.err # Nil
        THEN Resolution([Unresolved(l) EXCEPT !.Error = target.err],
                        NoLookup, FALSE)
        ELSE resolveFound(l, targetType,
                 FindNextNote(resolver.currentDate, targetType, target.dir,
                              cfg.SearchWindowDays),
                 Lookup("FindNextNote", resolver.currentDate, targetType,
                        target.dir, cfg.SearchWindowDays),
                 "failed to find next note")

resolveCrossReference(l) ==
    LET determined == determineTargetNoteType(l)
        targetType ==
            IF determined # << >> THEN determined
            ELSE IF resolver.currentNoteType = NoteTypeJournal
            THEN NoteTypeStandup
            ELSE NoteTypeJournal
        target == getDirForNoteType(targetType)
    IN  IF target.err # Nil
        THEN Resolution([Unresolved(l) EXCEPT !.Error = target.err],
                        NoLookup, FALSE)
        ELSE resolveFound(l, targetType,
                 FindNoteByDate(resolver.currentDate, targetType, target.dir,
                                cfg.SearchWindowDays),
                 Lookup("FindNoteByDate", resolver.currentDate, targetType,
                        target.dir, cfg.SearchWindowDays),
                 "failed to find cross-reference note")

Resolve(l) ==
    IF ~NeedsFixing(l) THEN Resolution(Unresolved(l), NoLookup, FALSE)
    ELSE IF l.Type = LinkTypeTemporalPrevious THEN resolvePreviousLink(l)
    ELSE IF l.Type = LinkTypeTemporalNext THEN resolveNextLink(l)
    ELSE IF l.Type = LinkTypeCrossReference THEN resolveCrossReference(l)
    ELSE Resolution(Unresolved(l), NoLookup, FALSE)

\* F applied to the value of e, which is computed once
WithValue(e, F(_)) == CHOOSE y \in {F(x) : x \in {e}} : TRUE

\* the results of a batch: the ResolvedLinks in order, with the finder call
\* made for each and whether one of them panicked
Batch(resolutions) ==
    [links |-> [i \in 1 .. Len(resolutions) |-> resolutions[i].link],
     calls |-> [i \in 1 .. Len(resolutions) |-> resolutions[i].lookup],
     panicked |-> \E i \in 1 .. Len(resolutions) : resolutions[i].panicked]

RECURSIVE ResolveUntilError(_, _)
\* the resolutions of cs[i], cs[i+1], ... up to the first one with an error
ResolveUntilError(cs, i) ==
    IF i > Len(cs) THEN << >>
    ELSE LET r == Resolve(cs[i])
         IN  IF r.link.Error # Nil THEN <<r>>
             ELSE <<r>> \o ResolveUntilError(cs, i + 1)

\* ResolveAll that stops at the first link that fails
ResolveAll_StopsAtFirstError(classifiedLinks) ==
    WithValue(ResolveUntilError(classifiedLinks, 1), Batch)

ResolveAll(classifiedLinks) ==
    WithValue([i \in 1 .. Len(classifiedLinks) |-> Resolve(classifiedLinks[i])],
              Batch)

\* FilterNeedsUpdate that keeps the links that failed as well
FilterNeedsUpdate_KeepsErrors(resolvedLinks) ==
    SelectSeq(resolvedLinks, LAMBDA r : r.NeedsUpdate \/ r.Error # Nil)

FilterNeedsUpdate(resolvedLinks) ==
    SelectSeq(resolvedLinks, LAMBDA r : r.NeedsUpdate)

--------------------------------------------------------------------------
(* The fix-links command (cmd/fix_links.go).  A document is [filePath,    *)
(* Content, links]: the file's text and the links of its syntax tree, in  *)
(* order.  The command's output is the sequence of the lines it prints.   *)

\* "[text](destination)"
LinkSource(text, destination) ==
    <<"[">> \o text \o <<"]", "(">> \o destination \o <<")">>

\* the least index at which sub occurs in s, 0 if it does not
Index(s, sub) ==
    IF \A i \in 1 .. Len(s) : ~OccursAt(s, sub, i) THEN 0
    ELSE CHOOSE i \in 1 .. Len(s) :
             /\ OccursAt(s, sub, i)
             /\ \A j \in 1 .. (i - 1) : ~OccursAt(s, sub, j)

\* strings.Replace(s, old, new, 1)
ReplaceAt(s, i, old, new) ==
    IF i = 0 THEN s
    ELSE SubSeq(s, 1, i - 1) \o new \o SubSeq(s, i + Len(old), Len(s))

\* a replacement of the last occurrence of old in s instead of the first
ReplaceFirst_LastOccurrence(s, old, new) ==
    IF \A i \in 1 .. Len(s) : ~OccursAt(s, old, i) THEN s
    ELSE WithValue(CHOOSE i \in 1 .. Len(s) :
                       /\ OccursAt(s, old, i)
                       /\ \A j \in (i + 1) .. Len(s) : ~OccursAt(s, old, j),
                   LAMBDA i : ReplaceAt(s, i, old, new))

ReplaceFirst(s, old, new) ==
    WithValue(Index(s, old), LAMBDA i : ReplaceAt(s, i, old, new))

RECURSIVE Components(_)
\* strings.Split(p, "/")
Components(p) ==
    LET i == Index(p, <<"/">>)
    IN  IF i = 0 THEN <<p>>
        ELSE <<SubSeq(p, 1, i - 1)>> \o Components(SubSeq(p, i + 1, Len(p)))

ErrNoteType == <<"cannot determine note type from path">>

RECURSIVE FirstNoteType(_, _)
FirstNoteType(components, i) ==
    IF i > Len(components) THEN [noteType |-> << >>, err |-> ErrNoteType]
    ELSE IF ToLower(components[i]) = NoteTypeJournal
    THEN [noteType |-> NoteTypeJournal, err |-> Nil]
    ELSE IF ToLower(components[i]) = NoteTypeStandup
    THEN [noteType |-> NoteTypeStandup, err |-> Nil]
    ELSE FirstNoteType(components, i + 1)

determineNoteType(filePath) ==
    FirstNoteType(Components([k \in 1 .. Len(filePath) |->
                     IF filePath[k] = "\\" THEN "/" ELSE filePath[k]]), 1)

RECURSIVE ApplyFrom(_, _, _)
ApplyFrom(content, fixes, i) ==
    IF i > Len(fixes) THEN content
    ELSE IF fixes[i].Error # Nil THEN ApplyFrom(content, fixes, i + 1)
    ELSE LET oldLink == LinkSource(fixes[i].Classified.Link.Text,
                                   fixes[i].Classified.Link.Destination)
             newLink == LinkSource(fixes[i].Classified.Link.Text,
                                   fixes[i].SuggestedDestination)
         IN  WithValue(ReplaceFirst(content, oldLink, newLink),
                       LAMBDA replaced : ApplyFrom(replaced, fixes, i + 1))

applyLinkFixes(doc, fixes) == ApplyFrom(doc.Content, fixes, 1)

ExtractLinks(doc) == doc.links

\* the lines fix-links prints for the links that need updating
Display(needsUpdate) ==
    [i \in 1 .. Len(needsUpdate) |->
        IF needsUpdate[i].Error # Nil
        THEN [line |-> "ERROR", i |-> i,
              Text |-> needsUpdate[i].Classified.Link.Text,
              Destination |-> needsUpdate[i].Classified.Link.Destination,
              Error |-> needsUpdate[i].Error]
        ELSE [line |-> "change", i |-> i,
              Text |-> needsUpdate[i].Classified.Link.Text,
              Destination |-> needsUpdate[i].Classified.Link.Destination,
              SuggestedDestination |-> needsUpdate[i].SuggestedDestination,
              Type |-> needsUpdate[i].Classified.Type]]

\* what a run of the command leaves: its error, the lines printed, and the
\* content of the file after it
Ran(err, output, content) == [err |-> err, output |-> output, content |-> content]

\* runFixLinks applying the changes whether or not --dry-run is set
showAndApply_IgnoresDryRun(doc, dryRun, found, needsUpdate) ==
    IF Len(needsUpdate) = 0
    THEN Ran(Nil, found \o <<[line |-> "All links are already correct!"]>>, file)
    ELSE Ran(Nil,
             found \o <<[line |-> "links need updating", n |-> Len(needsUpdate)]>>
                   \o Display(needsUpdate)
                   \o <<[line |-> "Applying changes..."],
                        [line |-> "Successfully updated", n |-> Len(needsUpdate)]>>,
             applyLinkFixes(doc, needsUpdate))

\* runFixLinks once the links that need updating are known
showAndApply(doc, dryRun, found, needsUpdate) ==
    IF Len(needsUpdate) = 0
    THEN Ran(Nil, found \o <<[line |-> "All links are already correct!"]>>, file)
    ELSE IF dryRun
    THEN Ran(Nil,
             found \o <<[line |-> "links need updating", n |-> Len(needsUpdate)]>>
                   \o Display(needsUpdate)
                   \o <<[line |-> "[DRY RUN] No changes made"]>>,
             file)
    ELSE Ran(Nil,
             found \o <<[line |-> "links need updating", n |-> Len(needsUpdate)]>>
                   \o Display(needsUpdate)
                   \o <<[line |-> "Applying changes..."],
                        [line |-> "Successfully updated", n |-> Len(needsUpdate)]>>,
             applyLinkFixes(doc, needsUpdate))

\* runFixLinks once the fixable links are known
resolveAndFix(doc, dryRun, fixable) ==
    IF Len(fixable) = 0
    THEN Ran(Nil, <<[line |-> "No fixable links found in file"]>>, file)
    ELSE WithValue(FilterNeedsUpdate(ResolveAll(fixable).links),
                   LAMBDA needsUpdate :
                       showAndApply(doc, dryRun,
                           <<[line |-> "Found fixable links", n |-> Len(fixable)]>>,
                           needsUpdate))

runFixLinks(doc, dryRun) ==
    IF IsNotExist(Stat(doc.filePath).err)
    THEN Ran(<<"file does not exist">>, << >>, file)
    ELSE IF determineNoteType(doc.filePath).err # Nil
    THEN Ran(<<"failed to determine note type">>, << >>, file)
    ELSE IF ParseDateFromFilename(doc.filePath).err # Nil
    THEN Ran(<<"failed to parse date from filename">>, << >>, file)
    ELSE IF Len(ExtractLinks(doc)) = 0
    THEN Ran(Nil, <<[line |-> "No links found in file"]>>, file)
    ELSE WithValue(SelectSeq(ClassifyAll(ExtractLinks(doc)), NeedsFixing),
                   LAMBDA fixable : resolveAndFix(doc, dryRun, fixable))

--------------------------------------------------------------------------
(* Filesystems of the model.                                              *)

NoFiles == [p \in {} |-> "file"]

\* a directory with the entries f gives its note paths ("absent": none)
DirWith(dir, f) ==
    [p \in {dir} \cup {q \in DOMAIN f : f[q] # "absent"} |->
        IF p = dir THEN "dir" ELSE f[p]]

\* the states of a note directory: missing, or holding, for each day of
\* Days, nothing or an entry of one of the kinds
DirStates(dir, kinds) ==
    {NoFiles} \cup
    {DirWith(dir, f) : f \in [{NotePath(dir, d) : d \in Days} -> kinds \cup {"absent"}]}

\* what a call may be given
CallDates == (Day0 - 1) .. (Day0 + MaxDay + 1)

CallNoteTypes == {NoteTypeJournal, NoteTypeStandup, <<"w", "e", "e", "k", "l", "y">>}

CallDirs == {JournalDir, MissingDir}

CallWindows == (0 - 1) .. MaxWindow

NoResolver == [constructed |-> FALSE]

NoClassifiedLink == [Type |-> "unset"]

\* no batch resolved yet
NoResolved == [batch |-> "unset"]

\* the content of the note file given to fix-links: none in a state without
\* such a file
NoContent == << >>

--------------------------------------------------------------------------
(* The finder's operations as actions.  The arguments of the call under   *)
(* study are drawn with the initial state; an action applies one          *)
(* operation to them and records its result.                              *)

FinderArgs ==
    [date : CallDates, noteType : CallNoteTypes, dir : CallDirs,
     searchWindowDays : CallWindows]

\* the arguments at hand are those of a finder call, or a link
IsFinderCall == "searchWindowDays" \in DOMAIN args

IsLink == "Text" \in DOMAIN args

FindNoteByDateCall ==
    /\ IsFinderCall
    /\ op' = "FindNoteByDate"
    /\ ret' = FindNoteByDate(args.date, args.noteType, args.dir,
                             args.searchWindowDays)
    /\ UNCHANGED <<fs, file, cfg, resolver, args, classified, resolved, lookup>>

FindNextNoteCall ==
    /\ IsFinderCall
    /\ op' = "FindNextNote"
    /\ ret' = FindNextNote(args.date, args.noteType, args.dir,
                           args.searchWindowDays)
    /\ UNCHANGED <<fs, file, cfg, resolver, args, classified, resolved, lookup>>

\* the finder over every state of one note directory
InitFinder ==
    /\ fs \in DirStates(JournalDir, {"file", "dir"})
    /\ file = NoContent
    /\ cfg = DefaultConfig(MaxWindow)
    /\ resolver = NoResolver
    /\ args \in FinderArgs
    /\ classified = NoClassifiedLink
    /\ resolved = NoResolved
    /\ lookup = NoLookup
    /\ op = "none"
    /\ ret = << >>

NextFinder == FindNoteByDateCall \/ FindNextNoteCall

SpecFinder == InitFinder /\ [][NextFinder]_vars

\* the finder over a note directory in which the stat of an entry may
\* also fail with an error other than not-exist (permission denied)
InitProbe ==
    /\ fs \in DirStates(JournalDir, {"file", "dir", "eacces"})
    /\ file = NoContent
    /\ cfg = DefaultConfig(MaxWindow)
    /\ resolver = NoResolver
    /\ args \in FinderArgs
    /\ classified = NoClassifiedLink
    /\ resolved = NoResolved
    /\ lookup = NoLookup
    /\ op = "none"
    /\ ret = << >>

SpecProbe == InitProbe /\ [][NextFinder]_vars

--------------------------------------------------------------------------
(* File names: GenerateFilename and ParseDateFromFilename as actions,     *)
(* over the path of a date's note in a directory and over given paths.    *)

\* the days next to the ends of months, of February in leap and common
\* years, of years, and of the four-digit years
FilenameAnchors ==
    {Day0, DaysFromCivil(2024, 2, 29), DaysFromCivil(1900, 2, 28),
     DaysFromCivil(2000, 2, 29), DaysFromCivil(2024, 12, 31),
     DaysFromCivil(2025, 6, 30), DaysFromCivil(1970, 1, 1),
     DaysFromCivil(0, 1, 1), DaysFromCivil(9999, 12, 31)}

FilenameDates == UNION {(d - 1) .. (d + 1) : d \in FilenameAnchors}

FilenameDirs ==
    {<< >>, JournalDir, <<".", ".", "/", "s", "t", "a", "n", "d", "u", "p">>, <<"/", "n", "o", "t", "e", "s", "/", "2", "0", "2", "4", "-", "0", "1", "-", "0", "1">>}

Filenames ==
    {<<"2", "0", "2", "5", "-", "0", "1", "-", "0", "6", ".", "m", "d">>, <<"/", "p", "a", "t", "h", "/", "t", "o", "/", "2", "0", "2", "5", "-", "0", "1", "-", "0", "7", ".", "m", "d">>, <<"i", "n", "v", "a", "l", "i", "d", "-", "d", "a", "t", "e", ".", "m", "d">>,
     <<"s", "h", "o", "r", "t", ".", "m", "d">>, << >>, <<"2", "0", "2", "5", "-", "0", "1", "-", "1", "5">>, <<"2", "0", "2", "5", "-", "0", "1", "-", "1", "5", "-", "n", "o", "t", "e", "s", ".", "m", "d">>,
     <<"n", "o", "t", "e", "s", "-", "2", "0", "2", "5", "-", "0", "1", "-", "1", "5", ".", "m", "d">>, <<"2", "0", "2", "5", "-", "1", "-", "5", ".", "m", "d">>, <<"2", "0", "2", "5", "_", "0", "1", "_", "1", "5", ".", "m", "d">>,
     <<"2", "0", "2", "5", "-", "1", "3", "-", "4", "5", ".", "m", "d">>, <<"2", "0", "2", "5", "-", "0", "0", "-", "1", "0", ".", "m", "d">>, <<"2", "0", "2", "5", "-", "0", "1", "-", "0", "0", ".", "m", "d">>,
     <<"2", "0", "2", "5", "-", "0", "2", "-", "3", "0", ".", "m", "d">>, <<"2", "0", "2", "5", "-", "0", "2", "-", "2", "9", ".", "m", "d">>, <<"2", "0", "2", "4", "-", "0", "2", "-", "2", "9", ".", "m", "d">>,
     <<"1", "9", "0", "0", "-", "0", "2", "-", "2", "9", ".", "m", "d">>, <<"/", "j", "o", "u", "r", "n", "a", "l", "/", "2", "0", "2", "5", "-", "0", "6", "-", "3", "1", ".", "m", "d">>, <<"0", "0", "0", "0", "-", "0", "1", "-", "0", "1", ".", "m", "d">>,
     <<"/", "2", "0", "2", "5", "-", "0", "1", "-", "1", "5", "/", "x", ".", "m", "d">>, <<"/", "2", "0", "2", "5", "-", "0", "1", "-", "1", "5", "/", "2", "0", "2", "5", "-", "0", "1", "-", "1", "6", "-", "n", "o", "t", "e", "s", ".", "m", "d">>,
     <<"/", "j", "o", "u", "r", "n", "a", "l", "/", "2", "0", "2", "5", "-", "0", "1", "-", "1", "5", "/">>,
     <<"2", "0", "2", "5", "-", "0", "1", "-", "1", "x", ".", "m", "d">>}

IsDateAndDir == DOMAIN args = {"date", "dir"}

IsFilename == DOMAIN args = {"filename"}

\* the path of the date's note in the directory, as the finder builds it
GenerateFilenameCall ==
    /\ IsDateAndDir
    /\ op = "none"
    /\ op' = "GenerateFilename"
    /\ ret' = [filename |-> Join(args.dir, GenerateFilename(args.date))]
    /\ UNCHANGED <<fs, file, cfg, resolver, args, classified, resolved, lookup>>

\* the date of the given path, or of the path just generated
ParseDateFromFilenameCall ==
    /\ \/ IsFilename /\ op = "none"
       \/ op = "GenerateFilename"
    /\ \E filename \in {IF IsFilename THEN args.filename ELSE ret.filename} :
           \E parsed \in {ParseDateFromFilename(filename)} :
               ret' = [filename |-> filename, date |-> parsed.date,
                       err |-> parsed.err]
    /\ op' = "ParseDateFromFilename"
    /\ UNCHANGED <<fs, file, cfg, resolver, args, classified, resolved, lookup>>

InitFilename ==
    /\ fs = NoFiles
    /\ file = NoContent
    /\ cfg = DefaultConfig(MaxWindow)
    /\ resolver = NoResolver
    /\ args \in [date : FilenameDates, dir : FilenameDirs]
                \cup [filename : Filenames]
    /\ classified = NoClassifiedLink
    /\ resolved = NoResolved
    /\ lookup = NoLookup
    /\ op = "none"
    /\ ret = << >>

NextFilename == GenerateFilenameCall \/ ParseDateFromFilenameCall

SpecFilename == InitFilename /\ [][NextFilename]_vars

--------------------------------------------------------------------------
(* The classifier's operations as actions, over the links built from the  *)
(* texts and destinations below.                                          *)

LinkTexts ==
    {<<"Y", "e", "s", "t", "e", "r", "d", "a", "y">>, <<" ", " ", "P", "R", "E", "V", "I", "O", "U", "S", " ">>, <<"T", "o", "m", "o", "r", "r", "o", "w">>, <<"D", "a", "i", "l", "y", " ", "L", "o", "g">>,
     <<"S", "t", "a", "n", "d", "u", "p", "/", "Y", "e", "s", "t", "e", "r", "d", "a", "y">>, <<"S", "i", "n", "c", "e", " ", "Y", "e", "s", "t", "e", "r", "d", "a", "y">>, <<"S", "o", "m", "e", " ", "P", "a", "g", "e">>,
     <<"B", "e", "f", "o", "r", "e">>, <<"e", "a", "r", "l", "i", "e", "r">>, <<"S", "t", "a", "n", "d", "u", "p", " ", "N", "e", "x", "t">>}

DestPrefixes ==
    {<< >>, <<".", ".", "/", "j", "o", "u", "r", "n", "a", "l", "/">>, <<".", ".", "/", "S", "T", "A", "N", "D", "U", "P", "/">>, <<"j", "o", "u", "r", "n", "a", "l", "/">>, <<".", ".", "/", "/">>,
     <<"x", ".", ".", "/", "n", "o", "t", "e", "s", "/">>, <<".", ".", "/", "j", "o", "u", "r", "n", "a", "l", "/", ".", ".", "/", "s", "t", "a", "n", "d", "u", "p", "/">>,
     <<"h", "t", "t", "p", "s", ":", "/", "/", "e", "x", "a", "m", "p", "l", "e", ".", "c", "o", "m", "/">>, <<"h", "t", "t", "p", "s", ":", "/", "/", "e", "x", "a", "m", "p", "l", "e", ".", "c", "o", "m", "/", ".", ".", "/", "j", "o", "u", "r", "n", "a", "l", "/">>,
     <<"s", "t", "a", "n", "d", "u", "p", "/">>, <<"S", "t", "a", "n", "d", "u", "p", "/", ".", ".", "/", "J", "o", "u", "r", "n", "a", "l", "/">>}

DestDates ==
    {FormatDate(Day0), FormatDate(Day0 + MaxDay), <<"2", "0", "2", "5", "-", "1", "3", "-", "4", "5">>,
     <<"2", "0", "2", "5", "-", "1", "-", "0", "9">>, <<"s", "o", "m", "e", "-", "p", "a", "g", "e">>}

DestSuffixes == {<< >>, MdExt, <<"/">>}

Destinations ==
    {p \o d \o s : p \in DestPrefixes, d \in DestDates, s \in DestSuffixes}

Links == [Text : LinkTexts, Destination : Destinations]

\* a link is classified once, and its ClassifiedLink never changes
ClassifyCall ==
    /\ IsLink
    /\ classified = NoClassifiedLink
    /\ op' = "Classify"
    /\ classified' = Classify(args)
    /\ ret' = << >>
    /\ UNCHANGED <<fs, file, cfg, resolver, args, resolved, lookup>>

\* a ClassifiedLink written as a struct literal, of any type
ClassifiedLinkLiteral ==
    \E type \in LinkTypes :
        /\ IsLink
        /\ classified = NoClassifiedLink
        /\ op' = "ClassifiedLink"
        /\ classified' = ClassifiedLink(args, type, << >>)
        /\ ret' = << >>
        /\ UNCHANGED <<fs, file, cfg, resolver, args, resolved, lookup>>

NeedsFixingCall ==
    /\ IsLink
    /\ classified # NoClassifiedLink
    /\ op' = "NeedsFixing"
    /\ ret' = NeedsFixing(classified)
    /\ UNCHANGED <<fs, file, cfg, resolver, args, classified, resolved, lookup>>

InitClassifier ==
    /\ fs = NoFiles
    /\ file = NoContent
    /\ cfg \in {DefaultConfig(MaxWindow), CustomConfig(MaxWindow)}
    /\ resolver = NoResolver
    /\ args \in Links
    /\ classified = NoClassifiedLink
    /\ resolved = NoResolved
    /\ lookup = NoLookup
    /\ op = "none"
    /\ ret = << >>

NextClassifier == ClassifyCall \/ ClassifiedLinkLiteral \/ NeedsFixingCall

SpecClassifier == InitClassifier /\ [][NextClassifier]_vars

--------------------------------------------------------------------------
(* The resolver's operations as actions: one Resolver, constructed for    *)
(* the current note, resolves the link once it is classified.             *)

\* the texts of a previous link, a next link, a cross-reference
FixableTexts == {<<"Y", "e", "s", "t", "e", "r", "d", "a", "y">>, <<"T", "o", "m", "o", "r", "r", "o", "w">>, <<"S", "t", "a", "n", "d", "u", "p">>}

StandupPrefix == <<".", ".", "/", "s", "t", "a", "n", "d", "u", "p", "/">>

ResolverPrefixes == {<< >>, <<".", ".", "/", "j", "o", "u", "r", "n", "a", "l", "/">>, StandupPrefix}

\* destinations that name the first or the second day of the model, two of
\* them with the .md extension
ResolverDestinations ==
    {p \o FormatDate(d) : p \in ResolverPrefixes, d \in {Day0, Day0 + 1}}
    \cup {FormatDate(Day0) \o MdExt,
          StandupPrefix \o FormatDate(Day0 + 1) \o MdExt}

ResolverLinks ==
    [Text : FixableTexts, Destination : ResolverDestinations]
    \cup {[Text |-> <<"S", "o", "m", "e", " ", "P", "a", "g", "e">>, Destination |-> <<"s", "o", "m", "e", "-", "p", "a", "g", "e">>],
          [Text |-> <<"Y", "e", "s", "t", "e", "r", "d", "a", "y">>,
           Destination |-> <<"h", "t", "t", "p", "s", ":", "/", "/", "e", "x", "a", "m", "p", "l", "e", ".", "c", "o", "m", "/">> \o FormatDate(Day0)]}

ResolveCall ==
    /\ IsLink
    /\ resolver.constructed
    /\ classified # NoClassifiedLink
    /\ LET r == Resolve(classified)
       IN  /\ ret' = r.link @@ [panicked |-> r.panicked]
           /\ lookup' = r.lookup
    /\ op' = "Resolve"
    /\ UNCHANGED <<fs, file, cfg, resolver, args, classified, resolved>>

\* a directory that holds a note for every day of Days
FullDir(dir) == DirWith(dir, [p \in {NotePath(dir, d) : d \in Days} |-> "file"])

\* two note directories: one of them missing, or holding note files for
\* some days, or holding for one day a directory that bears the note's
\* name and note files for the others; the other holding a note for every
\* day
ResolverFilesystems ==
    {j @@ FullDir(StandupDir) : j \in DirStates(JournalDir, {"file"})}
    \cup {FullDir(JournalDir) @@ s : s \in DirStates(StandupDir, {"file"})}
    \cup {DirWith(JournalDir, [p \in {NotePath(JournalDir, d) : d \in Days} |->
                                 IF p = NotePath(JournalDir, e) THEN "dir" ELSE "file"])
              @@ FullDir(StandupDir) : e \in Days}
    \cup {FullDir(JournalDir)
              @@ DirWith(StandupDir, [p \in {NotePath(StandupDir, d) : d \in Days} |->
                                 IF p = NotePath(StandupDir, e) THEN "dir" ELSE "file"])
              : e \in Days}

InitResolver ==
    /\ fs \in ResolverFilesystems
    /\ file = NoContent
    /\ cfg = DefaultConfig(MaxWindow)
    /\ resolver \in {NewResolver(d, nt) :
                        d \in Days, nt \in {NoteTypeJournal, NoteTypeStandup}}
    /\ args \in ResolverLinks
    /\ classified = NoClassifiedLink
    /\ resolved = NoResolved
    /\ lookup = NoLookup
    /\ op = "none"
    /\ ret = << >>

NextResolver == ClassifyCall \/ ResolveCall

SpecResolver == InitResolver /\ [][NextResolver]_vars

--------------------------------------------------------------------------
(* Batches and the fix-links command as actions, over the note file of    *)
(* the current journal day and the documents built from the links below.  *)

MaxLinks == 2

\* a previous link that names the current day, a next link that names the
\* day after the next, a cross-reference to the day before, and two links
\* that are not fixable
BatchLinks ==
    {[Text |-> <<"Y", "e", "s", "t", "e", "r", "d", "a", "y">>, Destination |-> FormatDate(Day0 + 1)],
     [Text |-> <<"T", "o", "m", "o", "r", "r", "o", "w">>, Destination |-> FormatDate(Day0 + 2)],
     [Text |-> <<"S", "t", "a", "n", "d", "u", "p">>, Destination |-> StandupPrefix \o FormatDate(Day0)],
     [Text |-> <<"E", "x", "t", "e", "r", "n", "a", "l">>, Destination |-> <<"h", "t", "t", "p", "s", ":", "/", "/", "e", "x", "a", "m", "p", "l", "e", ".", "c", "o", "m">>],
     [Text |-> <<"Y", "e", "s", "t", "e", "r", "d", "a", "y">>, Destination |-> <<"s", "o", "m", "e", "-", "p", "a", "g", "e">>]}

RECURSIVE Render(_, _)
\* the text of a note with the links ls[i], ls[i+1], ..., one per line
Render(ls, i) ==
    IF i > Len(ls) THEN << >>
    ELSE LinkSource(ls[i].Text, ls[i].Destination) \o <<"\n">> \o Render(ls, i + 1)

\* the text after the links of a note: nothing, or an indented code block
\* that quotes the source of the first link, which the parser reports as
\* no link
CodeBlocks(ls) ==
    {<< >>} \cup
    {<<"\n", " ", " ", " ", " ">>
        \o LinkSource(ls[i].Text, ls[i].Destination) \o <<"\n">> :
        i \in {1} \cap DOMAIN ls}

Document(filePath, ls, rest) ==
    [filePath |-> filePath, Content |-> Render(ls, 1) \o rest, links |-> ls]

LinkSeqs == UNION {[1 .. n -> BatchLinks] : n \in 0 .. MaxLinks}

IsDocument == "links" \in DOMAIN args

ClassifyAllCall ==
    /\ IsDocument
    /\ classified = NoClassifiedLink
    /\ classified' = [links |-> ClassifyAll(ExtractLinks(args))]
    /\ op' = "ClassifyAll"
    /\ ret' = << >>
    /\ UNCHANGED <<fs, file, cfg, resolver, args, resolved, lookup>>

ResolveAllCall ==
    /\ IsDocument
    /\ resolver.constructed
    /\ classified # NoClassifiedLink
    /\ resolved = NoResolved
    /\ \E batch \in {ResolveAll(classified.links)} :
           /\ resolved' = [links |-> batch.links]
           /\ lookup' = [fn |-> "ResolveAll", calls |-> batch.calls]
           /\ ret' = [panicked |-> batch.panicked]
    /\ op' = "ResolveAll"
    /\ UNCHANGED <<fs, file, cfg, resolver, args, classified>>

FilterNeedsUpdateCall ==
    /\ IsDocument
    /\ resolved # NoResolved
    /\ ret' = [links |-> FilterNeedsUpdate(resolved.links)]
    /\ op' = "FilterNeedsUpdate"
    /\ UNCHANGED <<fs, file, cfg, resolver, args, classified, resolved, lookup>>

\* one run of the command on the note file, as parsed from its content;
\* the command builds its Resolver from the file's path
FixLinksCall ==
    \E dryRun \in BOOLEAN :
        /\ IsDocument
        /\ file = args.Content
        /\ classified = NoClassifiedLink
        /\ determineNoteType(args.filePath).err = Nil
               => resolver = NewResolver(ParseDateFromFilename(args.filePath).date,
                                         determineNoteType(args.filePath).noteType)
        /\ \E ran \in {runFixLinks(args, dryRun)} :
               /\ file' = ran.content
               /\ ret' = [err |-> ran.err, output |-> ran.output,
                          dryRun |-> dryRun]
        /\ op' = "fix-links"
        /\ UNCHANGED <<fs, cfg, resolver, args, classified, resolved, lookup>>

\* the journal directory in every state, the standup directory with a
\* note for every day, and the journal note of the second day given to
\* the command
InitBatch ==
    /\ fs \in {j @@ FullDir(StandupDir) : j \in DirStates(JournalDir, {"file"})}
    /\ cfg = DefaultConfig(MaxWindow)
    /\ resolver = NewResolver(Day0 + 1, NoteTypeJournal)
    /\ args \in UNION {{Document(NotePath(JournalDir, Day0 + 1), ls, rest) :
                             rest \in CodeBlocks(ls)} : ls \in LinkSeqs}
    /\ file = args.Content
    /\ classified = NoClassifiedLink
    /\ resolved = NoResolved
    /\ lookup = NoLookup
    /\ op = "none"
    /\ ret = << >>

NextBatch ==
    \/ ClassifyAllCall
    \/ ResolveAllCall
    \/ FilterNeedsUpdateCall
    \/ FixLinksCall

SpecBatch == InitBatch /\ [][NextBatch]_vars

--------------------------------------------------------------------------
(* The whole engine: the finder, the classifier and the resolver.         *)

Init ==
    \/ InitFinder \/ InitProbe \/ InitFilename \/ InitClassifier
    \/ InitResolver \/ InitBatch

Next ==
    \/ FindNoteByDateCall
    \/ FindNextNoteCall
    \/ GenerateFilenameCall
    \/ ParseDateFromFilenameCall
    \/ ClassifyCall
    \/ ClassifiedLinkLiteral
    \/ NeedsFixingCall
    \/ ResolveCall
    \/ ClassifyAllCall
    \/ ResolveAllCall
    \/ FilterNeedsUpdateCall
    \/ FixLinksCall

Spec == Init /\ [][Next]_vars

--------------------------------------------------------------------------
(* Properties of the Note Finder, under SpecFinder.                       *)

Max(S) == CHOOSE x \in S : \A y \in S : y <= x

Min(S) == CHOOSE x \in S : \A y \in S : x <= y

\* a plain file exists at the note path of the date
NoteExists(dir, date) ==
    /\ NotePath(dir, date) \in DOMAIN fs
    /\ fs[NotePath(dir, date)] = "file"

\* the dates of lo..hi that have a note file in the directory
NoteDates(dir, lo, hi) == {d \in lo..hi : NoteExists(dir, d)}

DirExists(dir) == dir \in DOMAIN fs

ValidFinderCall ==
    /\ IsValid(args.noteType)
    /\ args.searchWindowDays >= 1

\* C1: FindNoteByDate with a valid series, an existing directory and a
\* window w >= 1 returns the note file of the greatest date d with
\* date - w <= d <= date that has a note file in the directory, and the
\* not-found error exactly when there is no such date.
C1_FindByDateGreatestInWindow ==
    (op = "FindNoteByDate" /\ ValidFinderCall /\ DirExists(args.dir)) =>
        LET found == NoteDates(args.dir, args.date - args.searchWindowDays,
                               args.date)
        IN  /\ ~ret.panicked
            /\ (found = {}) <=> (ret.err = ErrNoNoteBefore)
            /\ found = {} => ret.path = Nil
            /\ found # {} => /\ ret.err = Nil
                             /\ ret.path = NotePath(args.dir, Max(found))

\* the fallback crossed a gap of two days to the oldest date of the window
C1_Witness ==
    /\ op = "FindNoteByDate"
    /\ ValidFinderCall
    /\ args.searchWindowDays >= 2
    /\ NoteDates(args.dir, args.date - args.searchWindowDays, args.date)
         = {args.date - args.searchWindowDays}
    /\ ret.path = NotePath(args.dir, args.date - args.searchWindowDays)

\* C2: FindNextNote with a valid series and a window w >= 1 returns the
\* note file of the least date d with date + 1 <= d <= date + w that has a
\* note file, and the not-found error when there is none; it never returns
\* the note of the date itself.
C2_FindNextLeastInWindow ==
    op = "FindNextNote" =>
        /\ ret.path # NotePath(args.dir, args.date)
        /\ ValidFinderCall =>
             LET found == NoteDates(args.dir, args.date + 1,
                                    args.date + args.searchWindowDays)
             IN  /\ ~ret.panicked
                 /\ found = {} => ret.path = Nil /\ ret.err = ErrNoNoteAfter
                 /\ found # {} => /\ ret.err = Nil
                                  /\ ret.path = NotePath(args.dir, Min(found))

\* the note of the date itself exists and a later note was returned
C2_Witness ==
    /\ op = "FindNextNote"
    /\ ValidFinderCall
    /\ NoteExists(args.dir, args.date)
    /\ ~NoteExists(args.dir, args.date + 1)
    /\ ret.path = NotePath(args.dir, args.date + 2)

\* C3, as stated: whenever a note file exists at the requested date,
\* FindNoteByDate returns that file, whatever the window.
C3_ExactFileWhateverWindow ==
    (op = "FindNoteByDate" /\ NoteExists(args.dir, args.date)) =>
        ret.path = NotePath(args.dir, args.date) /\ ret.err = Nil

\* C3, amended: when a note file exists at the requested date,
\* FindNoteByDate with a valid series and a window >= 1 returns that exact
\* file, whatever the size of the window and whatever earlier notes exist;
\* with an invalid series or a window <= 0 it returns an error and no
\* path, so it never returns a fallback.
C3_ExactFileForValidCalls ==
    (op = "FindNoteByDate" /\ NoteExists(args.dir, args.date)) =>
        IF ValidFinderCall
        THEN ret.path = NotePath(args.dir, args.date) /\ ret.err = Nil
        ELSE ret.path = Nil /\ ret.err # Nil

\* the exact note and an earlier note of the window both exist
C3_Witness ==
    /\ op = "FindNoteByDate"
    /\ ValidFinderCall
    /\ args.searchWindowDays >= 2
    /\ NoteExists(args.dir, args.date)
    /\ NoteExists(args.dir, args.date - 1)
    /\ ret.path = NotePath(args.dir, args.date)

\* C4: FindNoteByDate returns an error and an empty path whenever the
\* series is invalid, the window is <= 0, the directory does not exist or
\* no note exists within the window; FindNextNote does for an invalid
\* series or a window <= 0; no call returns a path together with an error.
C4_ErrorsCarryNoPath ==
    /\ op = "FindNoteByDate" =>
         ((\/ ~IsValid(args.noteType)
           \/ args.searchWindowDays <= 0
           \/ ~DirExists(args.dir)
           \/ NoteDates(args.dir, args.date - args.searchWindowDays,
                        args.date) = {})
          => (ret.err # Nil /\ ret.path = Nil /\ ~ret.panicked))
    /\ op = "FindNextNote" =>
         ((~IsValid(args.noteType) \/ args.searchWindowDays <= 0)
          => (ret.err # Nil /\ ret.path = Nil /\ ~ret.panicked))
    /\ op \in {"FindNoteByDate", "FindNextNote"} =>
         ~(ret.path # Nil /\ ret.err # Nil)

\* an invalid series is refused although the exact note exists
C4_Witness ==
    /\ op = "FindNoteByDate"
    /\ ~IsValid(args.noteType)
    /\ args.searchWindowDays >= 1
    /\ NoteExists(args.dir, args.date)
    /\ ret.err = ErrInvalidNoteType
    /\ ret.path = Nil

--------------------------------------------------------------------------
(* Properties of file names.                                              *)

\* the date was generated into a path and the path parsed back
RoundTrip == op = "ParseDateFromFilename" /\ IsDateAndDir

\* the year of the date is written with four digits
FourDigitYear(date) == CivilFromDays(date)[1] \in 0 .. 9999

\* C17 as stated: for every date and directory, the path of the date's
\* note parses back to the date without error, and the file name of the
\* parsed date is the one parsed.
C17_RoundTripEveryDate ==
    RoundTrip =>
        /\ ret.err = Nil
        /\ ret.date = args.date
        /\ Join(args.dir, GenerateFilename(ret.date)) = ret.filename

\* C17: for every date of the years 0000 to 9999 and every directory, the
\* path of the date's note parses back to the date without error, and the
\* file name of the parsed date is the one parsed.
C17_RoundTripFourDigitYears ==
    RoundTrip /\ FourDigitYear(args.date) =>
        /\ ret.err = Nil
        /\ ret.date = args.date
        /\ Join(args.dir, GenerateFilename(ret.date)) = ret.filename

\* the note of a leap day, in a directory whose name is a date
C17_Witness ==
    /\ RoundTrip
    /\ args.date = DaysFromCivil(2024, 2, 29)
    /\ args.dir = <<"/", "n", "o", "t", "e", "s", "/", "2", "0", "2", "4", "-", "0", "1", "-", "0", "1">>
    /\ ret.err = Nil
    /\ ret.date = args.date

\* the characters of p after its last "/", the "/" at its end set aside
BaseName(p) ==
    IF p = << >> THEN <<".">>
    ELSE LET ends == {n \in 1 .. Len(p) : p[n] # "/"}
         IN  IF ends = {} THEN <<"/">>
             ELSE LET n == Max(ends)
                      starts == {i \in 1 .. n : \A k \in i .. n : p[k] # "/"}
                  IN  SubSeq(p, Min(starts), n)

\* s reads YYYY-MM-DD with a month of the year and a day of that month
ValidDateText(s) ==
    /\ Len(s) = 10
    /\ s[5] = "-" /\ s[8] = "-"
    /\ \A i \in {1, 2, 3, 4, 6, 7, 9, 10} : IsDigit(s[i])
    /\ LET y == 1000 * DigitVal(s[1]) + 100 * DigitVal(s[2])
                + 10 * DigitVal(s[3]) + DigitVal(s[4])
           m == 10 * DigitVal(s[6]) + DigitVal(s[7])
           d == 10 * DigitVal(s[9]) + DigitVal(s[10])
       IN  m \in 1 .. 12 /\ d \in 1 .. DaysIn(y, m)

\* C18: ParseDateFromFilename fails when the base name of the path has
\* fewer than 10 characters or its first 10 characters are not a date
\* YYYY-MM-DD, and else returns the date those 10 characters name,
\* whatever the directory part and the rest of the base name.
C18_ParsesBaseNameOnly ==
    op = "ParseDateFromFilename" =>
        IF Len(BaseName(ret.filename)) < 10
           \/ ~ValidDateText(SubSeq(BaseName(ret.filename), 1, 10))
        THEN ret.err # Nil /\ ret.date = ZeroTime
        ELSE /\ ret.err = Nil
             /\ FormatDate(ret.date) = SubSeq(BaseName(ret.filename), 1, 10)

\* a path with a date in its directory part and another in its base name,
\* followed by more text
C18_Witness ==
    /\ op = "ParseDateFromFilename"
    /\ ret.filename = <<"/", "2", "0", "2", "5", "-", "0", "1", "-", "1", "5", "/", "2", "0", "2", "5", "-", "0", "1", "-", "1", "6", "-", "n", "o", "t", "e", "s", ".", "m", "d">>
    /\ ret.err = Nil
    /\ ret.date = DaysFromCivil(2025, 1, 16)
--------------------------------------------------------------------------
(* Properties of the Link Classifier, under SpecClassifier.               *)

\* the text is YYYY-MM-DD followed by nothing or by .md
DateWithOptionalMd(s) ==
    \E ext \in {<< >>, MdExt} :
        /\ Len(s) = 10 + Len(ext)
        /\ SubSeq(s, 11, Len(s)) = ext
        /\ \A i \in 1..10 : IF i \in {5, 8} THEN s[i] = "-" ELSE IsDigit(s[i])

\* the date-link shape: a bare date with optional .md, or a text ending in
\* ../<dir>/ and a date with optional .md, <dir> a non-empty segment
DateLinkShaped(dest) ==
    \/ DateWithOptionalMd(dest)
    \/ \E i, j \in 1..Len(dest) :
        /\ i + 3 < j
        /\ SubSeq(dest, i, i + 2) = <<".", ".", "/">>
        /\ \A k \in (i + 3)..(j - 1) : dest[k] # "/"
        /\ dest[j] = "/"
        /\ DateWithOptionalMd(SubSeq(dest, j + 1, Len(dest)))

HasUriScheme(dest) ==
    \E i \in 1..Len(dest) : OccursAt(dest, <<":", "/", "/">>, i)

HasDateSubstring(dest) ==
    \E i \in 1..Len(dest) :
        i + 9 <= Len(dest) /\ DateWithOptionalMd(SubSeq(dest, i, i + 9))

Normalized(text) == ToLower(TrimSpace(text))

SynonymsOf(titles) == {Normalized(titles[i]) : i \in 1..Len(titles)}

PreviousSynonyms ==
    SynonymsOf(cfg.Journal.LinkPreviousTitles)
        \cup SynonymsOf(cfg.Standup.LinkPreviousTitles)

NextSynonyms ==
    SynonymsOf(cfg.Journal.LinkNextTitles)
        \cup SynonymsOf(cfg.Standup.LinkNextTitles)

HasMarker(text) ==
    \E m \in {<<"s", "t", "a", "n", "d", "u", "p">>, <<"j", "o", "u", "r", "n", "a", "l">>, <<"d", "a", "i", "l", "y">>, <<"d", "a", "i", "l", "y", " ", "l", "o", "g">>} :
        \E i \in 1..Len(text) : OccursAt(text, m, i)

FixableTypes ==
    {LinkTypeTemporalPrevious, LinkTypeTemporalNext, LinkTypeCrossReference}

\* C5: Classify gives every link exactly one of the five kinds, that of the
\* first matching rule: :// in the destination -> external; destination
\* not date-link shaped -> other; normalized text equal to a previous
\* synonym of either series -> temporal_previous; to a next synonym ->
\* temporal_next; holding a cross-reference marker -> cross_reference;
\* otherwise other.  A destination with no YYYY-MM-DD substring and no URI
\* scheme is classified other.
C5_ClassifyFirstMatchingRule ==
    op = "Classify" =>
        LET dest == args.Destination
            text == Normalized(args.Text)
        IN  /\ classified.Link = args
            /\ classified.Type \in LinkTypes
            /\ classified.Type =
                 IF HasUriScheme(dest) THEN LinkTypeExternal
                 ELSE IF ~DateLinkShaped(dest) THEN LinkTypeOther
                 ELSE IF text \in PreviousSynonyms THEN LinkTypeTemporalPrevious
                 ELSE IF text \in NextSynonyms THEN LinkTypeTemporalNext
                 ELSE IF HasMarker(text) THEN LinkTypeCrossReference
                 ELSE LinkTypeOther
            /\ (~HasUriScheme(dest) /\ ~HasDateSubstring(dest))
                 => classified.Type = LinkTypeOther

\* a date link whose text is a next synonym and holds a marker: the
\* synonym rule comes first
C5_Witness ==
    /\ op = "Classify"
    /\ DateLinkShaped(args.Destination)
    /\ ~HasUriScheme(args.Destination)
    /\ Normalized(args.Text) \in NextSynonyms \ PreviousSynonyms
    /\ HasMarker(Normalized(args.Text))
    /\ classified.Type = LinkTypeTemporalNext

\* C6: a link whose destination holds :// is classified external, and
\* NeedsFixing is false for an external link, whatever its text and also
\* when the URL ends in a date-shaped path.
C6_ExternalNeverFixable ==
    /\ (op = "Classify" /\ HasUriScheme(args.Destination))
         => classified.Type = LinkTypeExternal
    /\ (op = "NeedsFixing" /\ classified.Type = LinkTypeExternal)
         => ret = FALSE

\* an URL ending in ../journal/<date> under the text Yesterday
C6_Witness ==
    /\ op = "NeedsFixing"
    /\ classified = Classify(args)
    /\ HasPrefix(args.Destination, <<"h", "t", "t", "p", "s", ":", "/", "/">>)
    /\ DateLinkShaped(args.Destination)
    /\ Normalized(args.Text) = <<"y", "e", "s", "t", "e", "r", "d", "a", "y">>
    /\ classified.Type = LinkTypeExternal
    /\ ret = FALSE

\* C7: a date link whose normalized text holds a previous or next synonym
\* without being equal to one is never temporal: it is cross_reference if
\* the text holds a marker, and other if it holds none.
C7_SynonymsMatchExactly ==
    LET text == Normalized(args.Text)
        synonyms == PreviousSynonyms \cup NextSynonyms
    IN  (/\ op = "Classify"
         /\ ~HasUriScheme(args.Destination)
         /\ DateLinkShaped(args.Destination)
         /\ text \notin synonyms
         /\ \E s \in synonyms : Contains(text, s))
        => classified.Type =
             IF HasMarker(text) THEN LinkTypeCrossReference ELSE LinkTypeOther

\* Standup/Yesterday on a date link is a cross-reference
C7_Witness ==
    /\ op = "Classify"
    /\ Normalized(args.Text) = <<"s", "t", "a", "n", "d", "u", "p", "/", "y", "e", "s", "t", "e", "r", "d", "a", "y">>
    /\ DateLinkShaped(args.Destination)
    /\ classified.Type = LinkTypeCrossReference

\* C8: NeedsFixing is true exactly when the kind is temporal_previous,
\* temporal_next or cross_reference and the destination has the date-link
\* shape; it is false for every link of kind external or other.
C8_NeedsFixingExactly ==
    op = "NeedsFixing" =>
        /\ ret = (/\ classified.Type \in FixableTypes
                  /\ DateLinkShaped(classified.Link.Destination))
        /\ classified.Type \in {LinkTypeExternal, LinkTypeOther} => ret = FALSE

\* a temporal link with a destination that is no date link is not fixable
C8_Witness ==
    /\ op = "NeedsFixing"
    /\ classified.Type = LinkTypeTemporalPrevious
    /\ HasDateSubstring(classified.Link.Destination)
    /\ ~DateLinkShaped(classified.Link.Destination)
    /\ ret = FALSE

--------------------------------------------------------------------------
(* Properties of the Link Resolver.                                       *)

OppositeSeries(noteType) ==
    IF noteType = NoteTypeJournal THEN NoteTypeStandup ELSE NoteTypeJournal

\* the series a link is about: the one its destination names, else the
\* current note's for temporal links and the other one for cross-references
TargetSeries(l) ==
    IF l.TargetNoteType # << >> THEN l.TargetNoteType
    ELSE IF l.Type = LinkTypeCrossReference
    THEN OppositeSeries(resolver.currentNoteType)
    ELSE resolver.currentNoteType

SeriesDir(noteType) ==
    IF noteType = NoteTypeJournal THEN JournalDir ELSE StandupDir

Resolved == op = "Resolve" /\ ~ret.panicked

\* C9: resolving a previous, next or cross-reference link searches the
\* directory of the target series: the series inferred from the destination
\* if there is one, else the current note's series for temporal links and
\* the opposite series for cross-references; a resolved path lies in that
\* directory.
C9_SearchesTargetSeriesDir ==
    Resolved /\ classified.Type \in FixableTypes =>
        /\ lookup # NoLookup
        /\ lookup.noteType = TargetSeries(classified)
        /\ lookup.dir = SeriesDir(TargetSeries(classified))
        /\ ret.ResolvedPath # Nil =>
               /\ HasPrefix(ret.ResolvedPath, SeriesDir(TargetSeries(classified)))
               /\ NoteExists(SeriesDir(TargetSeries(classified)), ret.ResolvedDate)

\* a cross-reference whose destination names no series, in a journal note,
\* resolved to a note of the standup directory
C9_Witness ==
    /\ Resolved
    /\ classified.Type = LinkTypeCrossReference
    /\ classified.TargetNoteType = << >>
    /\ resolver.currentNoteType = NoteTypeJournal
    /\ lookup.dir = StandupDir
    /\ ret.ResolvedPath # Nil

\* C10: a cross-reference link that resolves, resolves to the current
\* note's day: the resolved date is the current date, and without a note
\* of the target series on that day the link is not resolved to any note.
C10_CrossReferenceSameDay ==
    Resolved /\ classified.Type = LinkTypeCrossReference
             /\ ret.ResolvedPath # Nil =>
        ret.ResolvedDate = resolver.currentDate

\* a cross-reference resolved to a note of an earlier day, the target
\* series having no note on the current day
C10_ResolvedToEarlierDay ==
    /\ Resolved
    /\ classified.Type = LinkTypeCrossReference
    /\ ret.ResolvedPath # Nil
    /\ ret.ResolvedDate < resolver.currentDate
    /\ ~NoteExists(lookup.dir, resolver.currentDate)

\* the series directory holds no note on any day strictly between the two
NoNoteBetween(dir, lo, hi) == \A d \in (lo + 1) .. (hi - 1) : ~NoteExists(dir, d)

\* C11: a previous link that resolves, resolves to the latest day before
\* the current note's day that has a note in the target series; a next
\* link to the earliest such day after it.  The current day itself is
\* never the resolved day, and days without a note are passed over.
C11_TemporalNearestStrictly ==
    Resolved /\ ret.ResolvedPath # Nil =>
        /\ classified.Type = LinkTypeTemporalPrevious =>
               /\ ret.ResolvedDate < resolver.currentDate
               /\ NoteExists(SeriesDir(TargetSeries(classified)), ret.ResolvedDate)
               /\ NoNoteBetween(SeriesDir(TargetSeries(classified)),
                                ret.ResolvedDate, resolver.currentDate)
        /\ classified.Type = LinkTypeTemporalNext =>
               /\ ret.ResolvedDate > resolver.currentDate
               /\ NoteExists(SeriesDir(TargetSeries(classified)), ret.ResolvedDate)
               /\ NoNoteBetween(SeriesDir(TargetSeries(classified)),
                                resolver.currentDate, ret.ResolvedDate)

\* a previous link resolved over a day without a note, the current day
\* having a note of the target series
C11_Witness ==
    /\ Resolved
    /\ classified.Type = LinkTypeTemporalPrevious
    /\ ret.ResolvedPath # Nil
    /\ ret.ResolvedDate = resolver.currentDate - 2
    /\ NoteExists(lookup.dir, resolver.currentDate)


\* the destination that names a date in a series, as seen from the
\* current note: the bare date within the series, else ../<series>/<date>
CanonicalDestination(date, series) ==
    IF series = resolver.currentNoteType THEN FormatDate(date)
    ELSE <<".", ".", "/">> \o series \o <<"/">> \o FormatDate(date)

\* C12: a resolved link that needs an update suggests the canonical
\* destination of the resolved date: the bare YYYY-MM-DD when the target
\* series is the current note's, ../<target series>/YYYY-MM-DD otherwise.
C12_SuggestsCanonicalDestination ==
    Resolved /\ ret.NeedsUpdate =>
        ret.SuggestedDestination =
            CanonicalDestination(ret.ResolvedDate, TargetSeries(classified))

\* a stale link to a note of the other series
C12_Witness ==
    /\ Resolved
    /\ ret.NeedsUpdate
    /\ TargetSeries(classified) # resolver.currentNoteType
    /\ HasPrefix(ret.SuggestedDestination, <<".", ".", "/">>)

\* the first substring of s that reads dddd-dd-dd, or the empty string
FirstDateSubstring(s) ==
    LET at == {i \in 1 .. Len(s) - 9 :
                  \A k \in 0 .. 9 :
                      IF k \in {4, 7} THEN s[i + k] = "-" ELSE IsDigit(s[i + k])}
    IN  IF at = {} THEN << >> ELSE SubSeq(s, Min(at), Min(at) + 9)

\* C13: a link that resolved needs an update exactly when the first
\* YYYY-MM-DD of its destination is not the resolved date, and suggests a
\* destination exactly when it needs an update; a link whose date matches
\* is left alone whatever the form of its path.
C13_NeedsUpdateIffDateDiffers ==
    Resolved /\ ret.ResolvedPath # Nil =>
        /\ ret.NeedsUpdate <=>
               FirstDateSubstring(classified.Link.Destination)
                   # FormatDate(ret.ResolvedDate)
        /\ ret.SuggestedDestination # Nil <=> ret.NeedsUpdate

\* a resolved link with the right date whose destination is not the
\* canonical one, left alone
C13_Witness ==
    /\ Resolved
    /\ ret.ResolvedPath # Nil
    /\ ~ret.NeedsUpdate
    /\ ret.SuggestedDestination = Nil
    /\ classified.Link.Destination #
           CanonicalDestination(ret.ResolvedDate, TargetSeries(classified))

\* C14: a ResolvedLink carries an error or a resolution, never both: with
\* an error it has no path, the zero date, no update flag and no suggested
\* destination; with a path it has no error.
C14_ErrorOrResolution ==
    Resolved =>
        /\ ret.Error # Nil =>
               /\ ret.ResolvedPath = Nil
               /\ ret.ResolvedDate = ZeroTime
               /\ ~ret.NeedsUpdate
               /\ ret.SuggestedDestination = Nil
        /\ ret.ResolvedPath # Nil => ret.Error = Nil

\* a cross-reference that failed to resolve
C14_Witness ==
    /\ Resolved
    /\ classified.Type = LinkTypeCrossReference
    /\ ret.Error # Nil
    /\ ret.ResolvedPath = Nil

--------------------------------------------------------------------------
(* Properties of batches and of the fix-links command.                    *)

\* C15: ResolveAll returns one ResolvedLink per ClassifiedLink, in order,
\* each the one Resolve gives for that link alone, whatever happened to
\* the others; an external or other link gets a record with no path, no
\* error and no update flag, and no finder call is made for it.
C15_ResolveAllPointwise ==
    op = "ResolveAll" =>
        /\ Len(resolved.links) = Len(classified.links)
        /\ \A i \in 1 .. Len(classified.links) :
               /\ resolved.links[i].Classified = classified.links[i]
               /\ resolved.links[i] = Resolve(classified.links[i]).link
               /\ classified.links[i].Type \in {LinkTypeExternal, LinkTypeOther} =>
                      /\ resolved.links[i].ResolvedPath = Nil
                      /\ resolved.links[i].Error = Nil
                      /\ ~resolved.links[i].NeedsUpdate
                      /\ lookup.calls[i] = NoLookup

\* a batch whose first link failed and whose second link is external,
\* after a batch of two links
C15_Witness ==
    /\ op = "ResolveAll"
    /\ Len(resolved.links) = 2
    /\ resolved.links[1].Error # Nil
    /\ resolved.links[2].Classified.Type = LinkTypeExternal
    /\ lookup.calls[1] # NoLookup

RECURSIVE Flagged(_, _)
\* the records of rs[i], rs[i+1], ... that have the NeedsUpdate flag
Flagged(rs, i) ==
    IF i > Len(rs) THEN << >>
    ELSE IF rs[i].NeedsUpdate THEN <<rs[i]>> \o Flagged(rs, i + 1)
    ELSE Flagged(rs, i + 1)

\* C16: FilterNeedsUpdate returns the records whose NeedsUpdate flag is
\* true, in their order, and none of the others: no record with the flag
\* false, so no record with an error.
C16_FilterKeepsFlagged ==
    op = "FilterNeedsUpdate" =>
        /\ ret.links = Flagged(resolved.links, 1)
        /\ \A k \in 1 .. Len(ret.links) :
               ret.links[k].NeedsUpdate /\ ret.links[k].Error = Nil

\* a failed link dropped and the stale link after it kept
C16_Witness ==
    /\ op = "FilterNeedsUpdate"
    /\ Len(resolved.links) = 2
    /\ resolved.links[1].Error # Nil
    /\ resolved.links[2].NeedsUpdate
    /\ ret.links = <<resolved.links[2]>>

\* the fixable links of the document that fail to resolve
FailedLinks ==
    {i \in 1 .. Len(args.links) :
        /\ NeedsFixing(Classify(args.links[i]))
        /\ Resolve(Classify(args.links[i])).link.Error # Nil}

\* the output has an ERROR line for the link
ReportsError(output, link) ==
    \E k \in 1 .. Len(output) :
        /\ output[k].line = "ERROR"
        /\ output[k].Text = link.Text
        /\ output[k].Destination = link.Destination

\* C19: a run of fix-links on a file with a fixable link that fails to
\* resolve ends without an error and prints that link's error among the
\* lines for the other links.
C19_ReportsFailedLinks ==
    op = "fix-links" /\ DirExists(JournalDir) /\ NoteExists(JournalDir, resolver.currentDate) =>
        /\ ret.err = Nil
        /\ \A i \in FailedLinks : ReportsError(ret.output, args.links[i])

\* a run that rewrote one link and printed nothing for the link that failed
C19_FailedLinkNotReported ==
    /\ op = "fix-links"
    /\ ret.err = Nil
    /\ FailedLinks # {}
    /\ file # args.Content
    /\ \A i \in FailedLinks : ~ReportsError(ret.output, args.links[i])

\* the days in the window of a fixable link that have a note of the
\* link's target series
CandidateDays(c) ==
    IF c.Type = LinkTypeTemporalPrevious
    THEN NoteDates(SeriesDir(TargetSeries(c)),
                   resolver.currentDate - 1 - cfg.SearchWindowDays,
                   resolver.currentDate - 1)
    ELSE IF c.Type = LinkTypeTemporalNext
    THEN NoteDates(SeriesDir(TargetSeries(c)),
                   resolver.currentDate + 1,
                   resolver.currentDate + cfg.SearchWindowDays)
    ELSE NoteDates(SeriesDir(TargetSeries(c)),
                   resolver.currentDate - cfg.SearchWindowDays,
                   resolver.currentDate)

NearestDay(c) ==
    IF c.Type = LinkTypeTemporalNext THEN Min(CandidateDays(c))
    ELSE Max(CandidateDays(c))

\* a fixable link with no note to point to
Fails(c) ==
    ~DirExists(SeriesDir(TargetSeries(c))) \/ CandidateDays(c) = {}

\* the text of a link after fix-links: that of a link that is not
\* fixable, fails to resolve or names the right day is kept, that of a
\* stale link names the nearest day in canonical form
FixedSource(link) ==
    LET c == Classify(link)
        kept == LinkSource(link.Text, link.Destination)
    IN  IF ~NeedsFixing(c) THEN kept
        ELSE IF Fails(c) THEN kept
        ELSE IF FirstDateSubstring(link.Destination) = FormatDate(NearestDay(c))
        THEN kept
        ELSE LinkSource(link.Text,
                        CanonicalDestination(NearestDay(c), TargetSeries(c)))

RECURSIVE FixedContent(_, _)
FixedContent(ls, i) ==
    IF i > Len(ls) THEN << >>
    ELSE FixedSource(ls[i]) \o <<"\n">> \o FixedContent(ls, i + 1)

\* C20: fix-links writes no replacement for a link that failed to
\* resolve: after a run without --dry-run the text of every failed link is
\* what it was, and every stale link of the file is rewritten.
C20_FailedLinksKeptOthersRewritten ==
    op = "fix-links" /\ ~ret.dryRun /\ ret.err = Nil =>
        file = FixedContent(args.links, 1)
                   \o Drop(args.Content, Len(Render(args.links, 1)))

\* a file whose first link failed and whose second link was rewritten
C20_Witness ==
    /\ op = "fix-links"
    /\ ~ret.dryRun
    /\ ret.err = Nil
    /\ Len(args.links) = 2
    /\ 1 \in FailedLinks
    /\ HasPrefix(file, LinkSource(args.links[1].Text, args.links[1].Destination))
    /\ file # args.Content

\* the links of the note file that name a day other than the nearest day
\* with a note
StaleLinks ==
    {i \in 1 .. Len(args.links) :
        FixedSource(args.links[i])
            # LinkSource(args.links[i].Text, args.links[i].Destination)}

\* the run printed the line
Printed(line) == \E k \in 1 .. Len(ret.output) : ret.output[k].line = line

\* C21: fix-links writes the note file only when --dry-run is not set
\* and at least one link needs updating: after a run with --dry-run, or on
\* a file with no links, no fixable links or only correct links, the
\* content of the file is what it was.
C21_WritesOnlyStaleLinksWithoutDryRun ==
    op = "fix-links" =>
        /\ ret.dryRun \/ StaleLinks = {} \/ ret.err # Nil => file = args.Content
        /\ Printed("No links found in file") => file = args.Content
        /\ Printed("No fixable links found in file") => file = args.Content
        /\ Printed("All links are already correct!") => file = args.Content
        /\ Printed("[DRY RUN] No changes made") => file = args.Content

\* a run with --dry-run on a file with a stale link, which printed the
\* change and left the file as it was
C21_Witness ==
    /\ op = "fix-links"
    /\ ret.dryRun
    /\ StaleLinks # {}
    /\ Printed("change")
    /\ Printed("[DRY RUN] No changes made")
    /\ file = args.Content

\* the stale links of the note file in the order of the file, each with
\* its text before and after the run
StaleFixes ==
    LET Source(l) == LinkSource(l.Text, l.Destination)
        stale == SelectSeq(args.links, LAMBDA l : FixedSource(l) # Source(l))
    IN  [i \in 1 .. Len(stale) |->
            [old |-> Source(stale[i]), new |-> FixedSource(stale[i])]]

\* s with its first occurrence of old replaced by new, every other
\* character kept
SubstitutedOnce(s, old, new) ==
    LET at == {i \in 1 .. Len(s) : OccursAt(s, old, i)}
    IN  IF at = {} THEN s
        ELSE WithValue(Min(at), LAMBDA i :
                 SubSeq(s, 1, i - 1) \o new \o SubSeq(s, i + Len(old), Len(s)))

RECURSIVE SubstitutedInOrder(_, _, _)
SubstitutedInOrder(s, fixes, i) ==
    IF i > Len(fixes) THEN s
    ELSE WithValue(SubstitutedOnce(s, fixes[i].old, fixes[i].new),
                   LAMBDA t : SubstitutedInOrder(t, fixes, i + 1))

\* the text of the note file after its links
AfterLinks(content) == Drop(content, Len(Render(args.links, 1)))

\* C22: applying the fixes substitutes, for each stale link in order,
\* the first occurrence of [text](old-destination) by
\* [text](new-destination) and changes nothing else: a later occurrence of
\* the same text that is no link, and the text of every link that is not
\* stale, are what they were.
C22_SubstitutesFirstOccurrenceOnly ==
    op = "fix-links" /\ ~ret.dryRun /\ ret.err = Nil =>
        /\ file = SubstitutedInOrder(args.Content, StaleFixes, 1)
        /\ AfterLinks(args.Content)
               = Drop(file, Len(file) - Len(AfterLinks(args.Content)))
        /\ \A i \in (1 .. Len(args.links)) \ StaleLinks :
               Contains(file, LinkSource(args.links[i].Text,
                                         args.links[i].Destination))

\* a file that ends with a code block quoting its stale first link: the
\* link was rewritten and the code block was not
C22_Witness ==
    /\ op = "fix-links"
    /\ ~ret.dryRun
    /\ ret.err = Nil
    /\ 1 \in StaleLinks
    /\ AfterLinks(args.Content) # << >>
    /\ file # args.Content
    /\ Contains(AfterLinks(args.Content),
                LinkSource(args.links[1].Text, args.links[1].Destination))
    /\ AfterLinks(args.Content)
           = Drop(file, Len(file) - Len(AfterLinks(args.Content)))

\* an entry of the directory bears the name of the note of the date and
\* is a directory
DirectoryNamedAsNote(dir, date) ==
    /\ NotePath(dir, date) \in DOMAIN fs
    /\ fs[NotePath(dir, date)] = "dir"

\* C23: a non-empty ResolvedPath returned by Resolve is the path
\* <directory of the target series>/<ResolvedDate>.md and a plain file
\* exists at it; a directory that bears a note's name is skipped, never
\* returned.
C23_ResolvedPathIsPlainFile ==
    Resolved /\ ret.ResolvedPath # Nil =>
        /\ ret.ResolvedPath
               = NotePath(SeriesDir(TargetSeries(classified)), ret.ResolvedDate)
        /\ ret.ResolvedPath \in DOMAIN fs
        /\ fs[ret.ResolvedPath] = "file"

\* a previous link resolved to the note of two days before, the entry
\* named as the note of the day before being a directory
C23_Witness ==
    /\ Resolved
    /\ classified.Type = LinkTypeTemporalPrevious
    /\ DirectoryNamedAsNote(SeriesDir(TargetSeries(classified)),
                            resolver.currentDate - 1)
    /\ ret.ResolvedPath
           = NotePath(SeriesDir(TargetSeries(classified)), resolver.currentDate - 2)
    /\ fs[ret.ResolvedPath] = "file"

\* C24: a finder call with a valid series and window on a series
\* directory that does not exist fails with the directory error, not with
\* "no note found", in FindNoteByDate and in FindNextNote alike.
C24_MissingDirectoryIsDirectoryError ==
    op \in {"FindNoteByDate", "FindNextNote"} /\ ValidFinderCall
            /\ ~DirExists(args.dir) =>
        ret.path = Nil /\ ret.err = ErrDirectory

\* FindNextNote on a directory that does not exist, failing with "no note
\* found after" after probing the days of the window
C24_FindNextNoteReportsNoteNotFound ==
    /\ op = "FindNextNote"
    /\ ValidFinderCall
    /\ ~DirExists(args.dir)
    /\ ret.err = ErrNoNoteAfter
    /\ Len(ret.stats) = args.searchWindowDays

\* the destination names the series, in any letter case, as a path
\* component followed by a separator: /<series>/ anywhere, or <series>/ at
\* its start
NamesSeries(dest, series) ==
    LET FoldedAt(i, part) ==
            /\ i + Len(part) - 1 <= Len(dest)
            /\ \A k \in 1 .. Len(part) :
                   ToLowerChar(dest[i + k - 1]) = ToLowerChar(part[k])
    IN  \/ FoldedAt(1, series \o <<"/">>)
        \/ \E i \in 1 .. Len(dest) : FoldedAt(i, <<"/">> \o series \o <<"/">>)

InferredSeries(dest) ==
    IF NamesSeries(dest, NoteTypeJournal) THEN NoteTypeJournal
    ELSE IF NamesSeries(dest, NoteTypeStandup) THEN NoteTypeStandup
    ELSE << >>

\* C25: the series inferred from a destination is journal when the
\* destination names journal in any letter case, else standup when it
\* names standup, else empty; the inferred series of a classified link is
\* one of the three, is that of its destination for a fixable link and is
\* empty for an external or other link.
C25_SeriesInference ==
    op = "Classify" =>
        /\ GetNoteTypeFromDestination(args) = InferredSeries(args.Destination)
        /\ classified.TargetNoteType \in {NoteTypeJournal, NoteTypeStandup, << >>}
        /\ classified.Type \in FixableTypes =>
               classified.TargetNoteType = InferredSeries(args.Destination)
        /\ classified.Type \in {LinkTypeExternal, LinkTypeOther} =>
               classified.TargetNoteType = << >>

\* a fixable link whose destination names standup at its start and
\* journal after it, in mixed case, classified with the journal series
C25_Witness ==
    /\ op = "Classify"
    /\ classified.Type \in FixableTypes
    /\ NamesSeries(args.Destination, NoteTypeStandup)
    /\ NamesSeries(args.Destination, NoteTypeJournal)
    /\ args.Destination # ToLower(args.Destination)
    /\ classified.TargetNoteType = NoteTypeJournal

Probes == SelectSeq(ret.stats, LAMBDA p : p # args.dir)

IsFinderResult == op \in {"FindNoteByDate", "FindNextNote"}

StatFails(path) == path \in DOMAIN fs /\ fs[path] = "eacces"

\* C29: every probe of a candidate note yields an answer: a candidate
\* whose stat fails with an error other than not-exist counts as absent,
\* and every call of FindNoteByDate and FindNextNote returns either a path
\* or an error.
C29_EveryProbeAnswers ==
    IsFinderResult =>
        /\ ~ret.panicked
        /\ (ret.path # Nil) # (ret.err # Nil)
        /\ ret.path # Nil => ~StatFails(ret.path)

\* a finder call that aborted in the probe of a candidate whose stat
\* fails with permission denied, returning neither a path nor an error
C29_ProbeAborts ==
    /\ IsFinderResult
    /\ ValidFinderCall
    /\ ret.panicked
    /\ ret.path = Nil
    /\ ret.err = Nil
    /\ StatFails(ret.stats[Len(ret.stats)])

\* the link at hand with its destination replaced by the suggested one
Rewritten == [Text |-> args.Text, Destination |-> ret.SuggestedDestination]

\* C28: rewriting is a fixpoint: a link resolved with NeedsUpdate true,
\* once its destination is replaced by SuggestedDestination, classifies to
\* the same kind and resolves, with the same Resolver and filesystem, to
\* the same target series and path with NeedsUpdate false.
C28_RewritingIsFixpoint ==
    Resolved /\ ret.Error = Nil /\ ret.NeedsUpdate =>
        LET again == Classify(Rewritten)
        IN  /\ again.Type = classified.Type
            /\ TargetSeries(again) = TargetSeries(classified)
            /\ Resolve(again).link.ResolvedPath = ret.ResolvedPath
            /\ ~Resolve(again).link.NeedsUpdate

\* a cross-reference whose destination names the current note's own
\* series: rewritten to the bare date, it classifies with no series and
\* resolves into the opposite series
C28_RewrittenLinkChangesSeries ==
    /\ Resolved
    /\ ret.Error = Nil
    /\ ret.NeedsUpdate
    /\ classified.Type = LinkTypeCrossReference
    /\ classified.TargetNoteType = resolver.currentNoteType
    /\ Classify(Rewritten).Type = LinkTypeCrossReference
    /\ TargetSeries(Classify(Rewritten)) = OppositeSeries(resolver.currentNoteType)
    /\ Resolve(Classify(Rewritten)).link.ResolvedPath # ret.ResolvedPath

\* the text ends in .md
EndsInMd(s) == Len(s) >= Len(MdExt) /\ Drop(s, Len(s) - Len(MdExt)) = MdExt

\* C30: a non-empty SuggestedDestination has the date-link shape and
\* does not end in .md, also when the destination it replaces ends in .md.
C30_SuggestedDestinationShape ==
    Resolved /\ ret.SuggestedDestination # Nil =>
        /\ DateLinkShaped(ret.SuggestedDestination)
        /\ IsDateLink([Text |-> args.Text,
                       Destination |-> ret.SuggestedDestination])
        /\ ~EndsInMd(ret.SuggestedDestination)

\* a stale link into the other series whose destination ends in .md,
\* with a suggested destination without the suffix
C30_Witness ==
    /\ Resolved
    /\ ret.NeedsUpdate
    /\ EndsInMd(args.Destination)
    /\ HasPrefix(args.Destination, <<".", ".", "/">>)
    /\ HasPrefix(ret.SuggestedDestination, <<".", ".", "/">>)
    /\ ~EndsInMd(ret.SuggestedDestination)
==========================================================================
